---- MODULE Spec2Model ----
(***************************************************************************)
(* The ant colony of src/js/colony.js (class Colony, first definition in   *)
(* the file), its agents (src/js/ant.js), its pheromone registry           *)
(* (PheromoneRegistry), its topology (src/js/environment.js), the          *)
(* simulation loop of src/js/main.js and the external decision path of     *)
(* src/js/llm/llm-orchestrator.js, as one state machine.                   *)
(*                                                                         *)
(* Units.  Energy is counted in hundredths of an energy point, so that     *)
(* ANT_ENERGY_DECAY_PER_TICK (0.15) is 15 and a latency penalty of         *)
(* rtt * 0.01 points is rtt hundredths.  Time is in milliseconds.          *)
(*                                                                         *)
(* Atomicity.  JavaScript runs one task at a time: the code between two    *)
(* awaits on something external (a fetch, a timer) is one action.  An      *)
(* await on a promise that is already settled only yields to the           *)
(* microtask queue, which runs before any timer, click or network task.    *)
(***************************************************************************)
EXTENDS Integers, Sequences, FiniteSets, TLC

\* ------------------------------------------------------------ bounds
\* Agents restored from the persisted snapshot at bootstrap.
NumAnts == 4
\* Ticks (colony.tickCount) explored.
MaxTicks == 2
\* Overlapping simulation loops explored (a loop is a pending invocation of
\* simLoop or a tick that has not returned).
MaxLoops == 2
\* Clicks (pause button, mode setting) explored.
MaxClicks == 2

\* ------------------------------------------------------------ CONFIG
MAX_COLONY_SIZE == 200
ANT_MAX_ENERGY == 10000
ANT_INITIAL_ENERGY == 8000
ANT_ENERGY_DECAY_PER_TICK == 15
ANT_ENERGY_GAIN_ON_FOOD == 3000
ANT_LATENCY_PENALTY_FACTOR == 1
PHEROMONE_INITIAL_INTENSITY == 1
PHEROMONE_REPELLENT_INTENSITY == -2
PHEROMONE_MAX_INTENSITY == 10
TICK_INTERVAL_MS == 1000
MAX_CONCURRENT_FETCHES == 3
FORAGE_COOLDOWN_TICKS == 5
REPRODUCTION_FOOD_THRESHOLD == 5
\* _handleDanger: source.damage || 50, source.damage || 30, and 15.
PREDATOR_DEFAULT_DAMAGE == 5000
STORM_DEFAULT_DAMAGE == 3000
CAMOUFLAGE_DAMAGE == 1500
\* tick(): this.tickCount % 10, this.tickCount % 30.
SAVE_EVERY_TICKS == 10
FLUSH_EVERY_TICKS == 30

Min(a, b) == IF a < b THEN a ELSE b
Max(a, b) == IF a > b THEN a ELSE b
Abs(x) == IF x < 0 THEN -x ELSE x
Range(s) == {s[i] : i \in DOMAIN s}

\* ------------------------------------------------------------ topology
NoUrl == "null"
NoFood == "null"

\* NetworkTopology._init: this.nodes = [...foods, ...dangers].  Two of the
\* four FOOD_SOURCES (a sugar and a protein one) and the DANGER_SOURCES.
nodes ==
  << [url |-> "posts",   kind |-> "food",   type |-> "sugar",    damage |-> 0],
     [url |-> "pokeapi", kind |-> "food",   type |-> "protein",  damage |-> 0],
     [url |-> "s429",    kind |-> "danger", type |-> "predator", damage |-> 5000],
     [url |-> "s500",    kind |-> "danger", type |-> "storm",    damage |-> 3000],
     [url |-> "s200",    kind |-> "danger", type |-> "swamp",    damage |-> 1000] >>

getFoodNodes == SelectSeq(nodes, LAMBDA n : n.kind = "food")
FoodUrls == {n.url : n \in Range(getFoodNodes)}
NodeUrls == {n.url : n \in Range(nodes)}
NodeOf(url) == CHOOSE n \in Range(nodes) : n.url = url

\* ------------------------------------------------------------ Ant
Roles == {"scout", "worker"}

\* new Ant(state): the defaults of the constructor.
NewAnt(role) ==
  [ energy |-> ANT_INITIAL_ENERGY, role |-> role, state |-> "idle",
    currentUrl |-> NoUrl, carrying |-> NoFood, lastRTT |-> 0,
    forageCooldown |-> 0, visitedUrls |-> <<>>, ticksAlive |-> 0 ]

\* new Ant(state): a field the state does not have, and an empty id, role or
\* state, takes its default; fresh is what generateId() returns.
Ant(state, fresh) ==
  LET has(f) == f \in DOMAIN state
  IN [ id |-> IF has("id") /\ state.id # "" THEN state.id ELSE fresh,
       energy |-> IF has("energy") THEN state.energy ELSE ANT_INITIAL_ENERGY,
       role |-> IF has("role") /\ state.role # "" THEN state.role ELSE "worker",
       state |-> IF has("state") /\ state.state # "" THEN state.state ELSE "idle",
       currentUrl |-> IF has("currentUrl") THEN state.currentUrl ELSE NoUrl,
       carrying |-> IF has("carrying") THEN state.carrying ELSE NoFood,
       lastRTT |-> IF has("lastRTT") THEN state.lastRTT ELSE 0,
       forageCooldown |-> IF has("forageCooldown") THEN state.forageCooldown ELSE 0,
       visitedUrls |-> IF has("visitedUrls") THEN state.visitedUrls ELSE <<>>,
       ticksAlive |-> IF has("ticksAlive") THEN state.ticksAlive ELSE 0 ]

\* A fault: the tick without its test for a dead agent.
tickOfTheDead(a) ==
  LET e == a.energy - ANT_ENERGY_DECAY_PER_TICK
  IN [a EXCEPT !.ticksAlive = @ + 1,
               !.energy = e,
               !.forageCooldown = IF @ > 0 THEN @ - 1 ELSE @,
               !.state = IF e <= 0 THEN "dead" ELSE @]
\* A fault: the tick never declares the agent dead.
tickWithoutDeath(a) ==
  IF a.state = "dead" THEN a
  ELSE [a EXCEPT !.ticksAlive = @ + 1,
                 !.energy = @ - ANT_ENERGY_DECAY_PER_TICK,
                 !.forageCooldown = IF @ > 0 THEN @ - 1 ELSE @]
\* Ant.tick
AntTick(a) ==
  IF a.state = "dead" THEN a
  ELSE LET e == a.energy - ANT_ENERGY_DECAY_PER_TICK
       IN [a EXCEPT !.ticksAlive = @ + 1,
                    !.energy = e,
                    !.forageCooldown = IF @ > 0 THEN @ - 1 ELSE @,
                    !.state = IF e <= 0 THEN "dead" ELSE @]

\* A fault: the penalty is taken without the test of the energy left.
latencyPenaltyUntested(a, rttMs) ==
  [a EXCEPT !.lastRTT = rttMs, !.energy = @ - rttMs * ANT_LATENCY_PENALTY_FACTOR]
\* Ant.applyLatencyPenalty
applyLatencyPenalty(a, rttMs) ==
  LET e == a.energy - rttMs * ANT_LATENCY_PENALTY_FACTOR
  IN [a EXCEPT !.lastRTT = rttMs,
               !.energy = e,
               !.state = IF e <= 0 THEN "dead" ELSE @]

\* A fault: the cooldown is not looked at.
canForageWhileCooling(a) ==
  a.carrying = NoFood /\ a.state = "idle"
\* Ant.canForage
canForage(a) ==
  a.forageCooldown <= 0 /\ a.carrying = NoFood /\ a.state = "idle"

\* A fault: the state is written as it is.
serialiseAsIs(a) ==
  [a EXCEPT !.visitedUrls = IF Len(@) > 20 THEN SubSeq(@, Len(@) - 19, Len(@)) ELSE @]
\* Ant.serialise
serialise(a) ==
  [a EXCEPT !.state = IF @ = "fetching" THEN "idle" ELSE @,
            !.visitedUrls = IF Len(@) > 20 THEN SubSeq(@, Len(@) - 19, Len(@)) ELSE @]

\* ------------------------------------------------------------ PheromoneRegistry
\* A registry is a function from the urls that have a record to records
\* [intensity, lastSeen, avgRTT, visits].  avgRTT is a rational <<n, d>>, or
\* one of the two IEEE values the code can produce.
Infinity == "Infinity"
NaN == "NaN"

RECURSIVE GCD(_, _)
GCD(a, b) == IF b = 0 THEN a ELSE GCD(b, a % b)
Rat(n, d) == LET g == GCD(n, d) IN IF g = 0 THEN <<0, 1>> ELSE <<n \div g, d \div g>>

\* A fault: the mean of the old average and the new latency.
MeanWithLast(avg, visits, rttMs) == Rat(avg[1] + rttMs * avg[2], avg[2] * 2)
\* (existing.avgRTT * existing.visits + rttMs) / (existing.visits + 1)
RunningMean(avg, visits, rttMs) ==
  IF avg = NaN THEN NaN
  ELSE IF avg = Infinity THEN (IF visits = 0 THEN NaN ELSE Infinity)
  ELSE Rat(avg[1] * visits + rttMs * avg[2], avg[2] * (visits + 1))

\* A fault: the deposit without the cap.
depositUnclamped(registry, url, rttMs, now) ==
  IF url \in DOMAIN registry
  THEN [registry EXCEPT ![url] =
          [ intensity |-> @.intensity + PHEROMONE_INITIAL_INTENSITY,
            lastSeen |-> now,
            avgRTT |-> RunningMean(@.avgRTT, @.visits, rttMs),
            visits |-> @.visits + 1 ]]
  ELSE [u \in DOMAIN registry \cup {url} |->
          IF u = url
          THEN [ intensity |-> PHEROMONE_INITIAL_INTENSITY, lastSeen |-> now,
                 avgRTT |-> Rat(rttMs, 1), visits |-> 1 ]
          ELSE registry[u]]
\* PheromoneRegistry.deposit, with Date.now() = now
deposit(registry, url, rttMs, now) ==
  IF url \in DOMAIN registry
  THEN [registry EXCEPT ![url] =
          [ intensity |-> Min(@.intensity + PHEROMONE_INITIAL_INTENSITY,
                              PHEROMONE_MAX_INTENSITY),
            lastSeen |-> now,
            avgRTT |-> RunningMean(@.avgRTT, @.visits, rttMs),
            visits |-> @.visits + 1 ]]
  ELSE [u \in DOMAIN registry \cup {url} |->
          IF u = url
          THEN [ intensity |-> PHEROMONE_INITIAL_INTENSITY, lastSeen |-> now,
                 avgRTT |-> Rat(rttMs, 1), visits |-> 1 ]
          ELSE registry[u]]

\* A fault: the repellent counted as a visit.
depositRepellentVisits(registry, url, now) ==
  IF url \in DOMAIN registry
  THEN [registry EXCEPT ![url] =
          [@ EXCEPT !.intensity = Max(@ + PHEROMONE_REPELLENT_INTENSITY,
                                      -PHEROMONE_MAX_INTENSITY),
                    !.lastSeen = now,
                    !.visits = @ + 1]]
  ELSE [u \in DOMAIN registry \cup {url} |->
          IF u = url
          THEN [ intensity |-> PHEROMONE_REPELLENT_INTENSITY, lastSeen |-> now,
                 avgRTT |-> Infinity, visits |-> 0 ]
          ELSE registry[u]]
\* PheromoneRegistry.depositRepellent
depositRepellent(registry, url, now) ==
  IF url \in DOMAIN registry
  THEN [registry EXCEPT ![url] =
          [@ EXCEPT !.intensity = Max(@ + PHEROMONE_REPELLENT_INTENSITY,
                                      -PHEROMONE_MAX_INTENSITY),
                    !.lastSeen = now]]
  ELSE [u \in DOMAIN registry \cup {url} |->
          IF u = url
          THEN [ intensity |-> PHEROMONE_REPELLENT_INTENSITY, lastSeen |-> now,
                 avgRTT |-> Infinity, visits |-> 0 ]
          ELSE registry[u]]

\* Math.exp(-CONFIG.PHEROMONE_DECAY_LAMBDA * dt) in ten-thousandths, with
\* lambda = 0.0001 per ms: e^(-0.1) = 0.9048 per second, truncated.
RECURSIVE ExpDecay(_)
ExpDecay(dtMs) ==
  IF dtMs < 1000 THEN 10000 ELSE (ExpDecay(dtMs - 1000) * 9048) \div 10000

\* A fault: a decay along a straight line, which passes zero.
EffectiveLinear(entry, now) ==
  entry.intensity * (10000 - (now - entry.lastSeen) \div 4)
\* entry.intensity * Math.exp(-lambda * dt), in ten-thousandths
Effective(entry, now) == entry.intensity * ExpDecay(now - entry.lastSeen)

\* PheromoneRegistry.getEffectiveIntensity
getEffectiveIntensity(registry, url, now) ==
  IF url \notin DOMAIN registry THEN 0 ELSE Effective(registry[url], now)

\* A fault: the threshold compared with the signed value.
pruneSigned(registry, now) ==
  LET keep == {u \in DOMAIN registry : ~(Effective(registry[u], now) < 100)}
  IN [u \in keep |-> registry[u]]
\* PheromoneRegistry.prune(threshold = 0.01)
prune(registry, now) ==
  LET keep == {u \in DOMAIN registry : ~(Abs(Effective(registry[u], now)) < 100)}
  IN [u \in keep |-> registry[u]]

\* ------------------------------------------------------------ selection
\* A fault: a repelled node is shunned altogether.
WeightShunning(role, intensity) ==
  IF intensity < -5000 THEN 0
  ELSE IF role = "scout" THEN Max(1000, 10000 - Abs(intensity))
  ELSE Max(1000, intensity + 10000)
\* Colony._selectTarget: the weight of one food node for an ant's role, in
\* ten-thousandths.
Weight(role, intensity) ==
  IF role = "scout"
  THEN (IF intensity < -5000 THEN 100 ELSE Max(1000, 10000 - Abs(intensity)))
  ELSE (IF intensity < -5000 THEN 500 ELSE Max(1000, intensity + 10000))

\* Colony._selectTarget on the food nodes getFoodNodes() returned: the urls
\* the roulette wheel can return.  With r = Math.random() * totalWeight in
\* [0, totalWeight), node i is returned when r - (w1 + ... + wi) <= 0 first
\* holds: the first node at r = 0, and any node of positive weight.  The
\* empty set stands for null.
selectAmong(food, registry, role, now) ==
  LET w(i) == Weight(role, getEffectiveIntensity(registry, food[i].url, now))
  IN {food[i].url : i \in {j \in DOMAIN food : j = 1 \/ w(j) > 0}}

selectTarget(registry, role, now) == selectAmong(getFoodNodes, registry, role, now)

\* ------------------------------------------------------------ forage
\* HTTP statuses the network can answer with; 0 is a transport failure or
\* the AbortSignal timeout (fetch rejects).
Statuses == {200, 429, 0}
\* Measured round trips, ms.
RTTs == {120}

Threw == [threw |-> TRUE, success |-> FALSE, status |-> 0, rtt |-> 0, danger |-> "none"]
Outcome(success, status, rtt, danger) ==
  [threw |-> FALSE, success |-> success, status |-> status, rtt |-> rtt, danger |-> danger]

\* NetworkTopology.forage -> _forageRemote / _forageLocal for a food node,
\* _forageDanger for a danger node.  In _forageDanger the storm, camouflage
\* and timeout results read the undeclared name rawUrl: a ReferenceError,
\* raised again inside the catch block, so the returned promise rejects.
forage(source, status, rtt) ==
  IF source.kind = "food"
  THEN (IF status = 0 THEN Outcome(FALSE, 0, rtt, "timeout")
        ELSE IF status \notin 200..299 THEN Outcome(FALSE, status, rtt, "camouflage")
        ELSE Outcome(TRUE, 200, rtt, "none"))
  ELSE (IF status = 0 THEN Threw
        ELSE IF status = 429 THEN Outcome(FALSE, 429, rtt, "predator")
        ELSE IF status >= 500 THEN Threw
        ELSE IF status \notin 200..299 THEN Threw
        ELSE Outcome(FALSE, 200, rtt, "swamp"))

\* ------------------------------------------------------------ state
VARIABLES
  colony,     \* the Colony object: ants (ids, in list order), heap (the Ant
              \* objects still referenced, by id), activeFetches, cookies (the
              \* number of food cookies), stats, tickCount, registry
              \* (pheromones.registry), saved (localStorage), llmMode, nextId
  ops,        \* forage operations in flight: ant id -> [url, tick]
  openTicks,  \* calls of Colony.tick() that have not returned: tick id ->
              \* [phase, batch, llm, tail]
  running,    \* main.js: let running
  timers,     \* pending invocations of simLoop (setTimeout, first call)
  clock,      \* Date.now(), ms
  clicks,     \* clicks handled so far
  probe,      \* the input and the output of one function, where a function
              \* is studied on its own; not used by the colony
  source      \* what the external decision source does when it is asked:
              \* [answers, json, decisions]

vars == <<colony, ops, openTicks, running, timers, clock, clicks, probe, source>>

InAnts(c, i) == \E k \in DOMAIN c.ants : c.ants[k] = i

\* ------------------------------------------------------------ tick steps
\* tick() step 1: for (const ant of this.ants) ant.tick()
AdvanceAnts(c) ==
  [c EXCEPT !.heap = [i \in DOMAIN c.heap |->
                        IF InAnts(c, i) THEN AntTick(c.heap[i]) ELSE c.heap[i]]]

\* tick() step 2: idleAnts, slotsAvailable, toDispatch
\* A fault: the batch taken from all ants, eligible or not.
everyAnt(c) == c.ants
idleAnts(c) == SelectSeq(c.ants, LAMBDA i : canForage(c.heap[i]))
\* A fault: the free slots computed without the operations in flight.
slotsIgnoringInFlight(c) == MAX_CONCURRENT_FETCHES
slotsAvailable(c) == MAX_CONCURRENT_FETCHES - c.activeFetches
\* A fault: the batch cut one short of the free slots.
toDispatchOneShort(c) ==
  LET idle == idleAnts(c)
  IN SubSeq(idle, 1, Min(Len(idle), Max(0, slotsAvailable(c) - 1)))
toDispatch(c) ==
  LET idle == idleAnts(c)
  IN SubSeq(idle, 1, Min(Len(idle), Max(0, slotsAvailable(c))))

\* Colony.isLLMEnabled
isLLMEnabled(c) == c.llmMode

\* LLMOrchestrator._buildStateSnapshot reads this.colony.food.length; a
\* Colony has no property food (its store is this.cookies), so the first
\* statement raises a TypeError.
\* (A fault-free _buildStateSnapshot would be: snapshotIsBuilt.)
snapshotIsBuilt == FALSE
buildStateSnapshotThrows == TRUE

\* LLMOrchestrator.getDecisions up to its first await: "empty" is the empty
\* map, "throw" a rejected promise, "await" the call of llmManager.complete.
getDecisions(batch) ==
  IF Len(batch) = 0 THEN "empty"
  ELSE IF buildStateSnapshotThrows THEN "throw"
  ELSE "await"

\* _dispatchAntWithTarget up to its await, for the ants of batch whose
\* target url is a node of the topology.
Dispatched(batch, target) ==
  {batch[i] : i \in {j \in DOMAIN batch : target[j] \in NodeUrls}}
TargetOf(batch, target, a) ==
  target[CHOOSE j \in DOMAIN batch : batch[j] = a]
Dispatch(c, batch, target) ==
  LET d == Dispatched(batch, target)
  IN [c EXCEPT
        !.heap = [i \in DOMAIN c.heap |->
                    IF i \in d
                    THEN [c.heap[i] EXCEPT !.state = "fetching",
                                           !.currentUrl = TargetOf(batch, target, i),
                                           !.forageCooldown = FORAGE_COOLDOWN_TICKS]
                    ELSE c.heap[i]],
        !.activeFetches = @ + Cardinality(d)]

\* tick() step 3 and _deliverFood.  stored is the number of cookies the
\* deliveries of this loop leave behind: the cookie name is
\* Date.now().toString(36), so deliveries within one millisecond write the
\* same cookie.
Returning(c) ==
  {i \in Range(c.ants) : c.heap[i].state = "returning" /\ c.heap[i].carrying # NoFood}
Deliver(c, stored) ==
  LET d == Returning(c)
  IN [c EXCEPT
        !.heap = [i \in DOMAIN c.heap |->
                    IF i \in d
                    THEN [c.heap[i] EXCEPT
                            !.energy = Min(@ + ANT_ENERGY_GAIN_ON_FOOD, ANT_MAX_ENERGY),
                            !.carrying = NoFood, !.currentUrl = NoUrl, !.state = "idle"]
                    ELSE c.heap[i]],
        !.cookies = @ + (IF d = {} THEN 0 ELSE stored),
        !.stats.totalFood = @ + Cardinality(d)]

\* A fault: an ant is spawned whatever the size of the colony.
spawnAntUncapped(c, role) ==
  [c EXCEPT !.ants = Append(@, c.nextId),
            !.heap = [i \in DOMAIN c.heap \cup {c.nextId} |->
                        IF i = c.nextId THEN NewAnt(role) ELSE c.heap[i]],
            !.nextId = @ + 1,
            !.stats.totalBirths = @ + 1]
\* Colony._spawnAnt
spawnAnt(c, role) ==
  IF Len(c.ants) >= MAX_COLONY_SIZE THEN c
  ELSE [c EXCEPT !.ants = Append(@, c.nextId),
                 !.heap = [i \in DOMAIN c.heap \cup {c.nextId} |->
                             IF i = c.nextId THEN NewAnt(role) ELSE c.heap[i]],
                 !.nextId = @ + 1,
                 !.stats.totalBirths = @ + 1]

\* Colony._tryReproduce
tryReproduce(c, role) ==
  IF c.cookies >= REPRODUCTION_FOOD_THRESHOLD
  THEN spawnAnt([c EXCEPT !.cookies = @ - 1], role)
  ELSE c

\* Colony._removeDeadAnts
removeDeadAnts(c) ==
  LET alive == SelectSeq(c.ants, LAMBDA i : c.heap[i].state # "dead")
  IN [c EXCEPT !.ants = alive,
               !.stats.totalDeaths = @ + (Len(c.ants) - Len(alive))]

\* Colony._saveAnts, every tenth tick
saveAnts(c) ==
  IF c.tickCount % SAVE_EVERY_TICKS = 0
  THEN [c EXCEPT !.saved = [ants |-> [k \in DOMAIN c.ants |-> serialise(c.heap[c.ants[k]])],
                            stats |-> c.stats]]
  ELSE c

\* Ant objects nothing refers to any more are forgotten, at the latest when
\* the next tick has removed the dead.
Collect(c, inflight) ==
  [c EXCEPT !.heap = [i \in (Range(c.ants) \cup inflight) \cap DOMAIN c.heap |-> c.heap[i]]]

\* A fault: the dead are removed before the reproduction check.
TickTailRemovingFirst(c, stored, role, now) ==
  LET c3 == Deliver(c, stored)
      c4 == [c3 EXCEPT !.registry = prune(@, now)]
      c5 == removeDeadAnts(c4)
      c6 == tryReproduce(c5, role)
  IN saveAnts(c6)
\* tick() steps 3 to 7, in the order of the code.
TickTail(c, stored, role, now) ==
  LET c3 == Deliver(c, stored)
      c4 == [c3 EXCEPT !.registry = prune(@, now)]
      c5 == tryReproduce(c4, role)
      c6 == removeDeadAnts(c5)
  IN saveAnts(c6)

\* ------------------------------------------------------------ outcomes
\* A fault: the agent is released without the test of its energy.
afterDangerUntested(hit) == [hit EXCEPT !.currentUrl = NoUrl, !.state = "idle"]
\* Colony._handleDanger after its switch
afterDanger(hit) ==
  IF hit.energy <= 0 THEN [hit EXCEPT !.state = "dead"]
  ELSE [hit EXCEPT !.currentUrl = NoUrl, !.state = "idle"]

\* Colony._handleDanger
handleDanger(c, a, src, res, now) ==
  LET ant == c.heap[a]
      hit == CASE res.danger = "predator" ->
                    [ant EXCEPT !.energy = @ - (IF src.damage # 0 THEN src.damage
                                                ELSE PREDATOR_DEFAULT_DAMAGE)]
               [] res.danger = "storm" ->
                    [ant EXCEPT !.energy = @ - (IF src.damage # 0 THEN src.damage
                                                ELSE STORM_DEFAULT_DAMAGE)]
               [] res.danger = "timeout" -> applyLatencyPenalty(ant, res.rtt)
               [] res.danger = "camouflage" ->
                    [ant EXCEPT !.energy = @ - CAMOUFLAGE_DAMAGE]
               [] OTHER -> ant
  IN [c EXCEPT !.heap[a] = afterDanger(hit),
               !.registry = IF res.danger = "storm"
                            THEN depositRepellent(@, src.url, now) ELSE @]

\* A fault: the success branch without its deposit.
applyOutcomeWithoutDeposit(c, a, url, res, now) ==
  LET src == NodeOf(url)
      c1 == IF res.threw THEN [c EXCEPT !.heap[a].state = "idle"]
            ELSE IF res.success
            THEN LET a1 == [c.heap[a] EXCEPT !.carrying = src.type, !.state = "returning"]
                     a2 == applyLatencyPenalty(a1, res.rtt)
                 IN [c EXCEPT !.heap[a] = [a2 EXCEPT !.visitedUrls = Append(@, url)]]
            ELSE handleDanger(c, a, src, res, now)
  IN [c1 EXCEPT !.activeFetches = @ - 1]
\* _dispatchAntWithTarget after its await: try / catch / finally
applyOutcome(c, a, url, res, now) ==
  LET src == NodeOf(url)
      c1 == IF res.threw THEN [c EXCEPT !.heap[a].state = "idle"]
            ELSE IF res.success
            THEN LET a1 == [c.heap[a] EXCEPT !.carrying = src.type, !.state = "returning"]
                     a2 == applyLatencyPenalty(a1, res.rtt)
                     a3 == [a2 EXCEPT !.visitedUrls = Append(@, url)]
                 IN [c EXCEPT !.heap[a] = a3,
                              !.registry = deposit(@, url, res.rtt, now)]
            ELSE handleDanger(c, a, src, res, now)
  IN [c1 EXCEPT !.activeFetches = @ - 1]

\* ------------------------------------------------------------ decisions
\* A response of the external source is [json, decisions]: json is FALSE
\* for a text without a JSON object or without a decisions array, decisions
\* is the sequence of entries [antId, targetUrl], where 0 and NoUrl stand
\* for a missing field.
\* LLMOrchestrator._parseDecisions: the valid urls of the catalog
\* A fault: the urls of all nodes, without the filter kind === 'food'.
everyNodeUrl == {n.url : n \in Range(nodes)}
validUrls == {n.url : n \in {m \in Range(nodes) : m.kind = "food"}}

RECURSIVE parseEntries(_, _, _)
parseEntries(entries, batchIds, decisions) ==
  IF entries = <<>> THEN decisions
  ELSE LET e == Head(entries)
           skip == \/ e.antId = 0 \/ e.targetUrl = NoUrl
                   \/ e.antId \notin batchIds
                   \/ e.targetUrl \notin validUrls
           next == IF skip THEN decisions
                   ELSE [i \in DOMAIN decisions \cup {e.antId} |->
                           IF i = e.antId THEN e.targetUrl ELSE decisions[i]]
       IN parseEntries(SubSeq(entries, 2, Len(entries)), batchIds, next)

\* LLMOrchestrator._parseDecisions: ant id -> target url
parseDecisions(response, batch) ==
  IF ~response.json THEN <<>>
  ELSE parseEntries(response.decisions, Range(batch), <<>>)

\* ------------------------------------------------------------ the tick
\* The order of tick(): deliver, prune, reproduce, remove the dead and save
\* run right after the dispatch; await Promise.allSettled(fetchPromises) is
\* the last statement.
\* A different order: the await first, delivery and the rest after it.
deliveryFollowsAwait == FALSE
deliveryPrecedesAwait == TRUE

\* The local policy's choice for the i-th ant of the batch, NoUrl when the
\* ant has a decision (no choice is made) or _selectTarget returns null.
LocalChoice(c, batch, decisions, tgt, now) ==
  \A i \in DOMAIN tgt :
     IF i \notin DOMAIN batch \/ batch[i] \in DOMAIN decisions THEN tgt[i] = NoUrl
     ELSE LET set == selectTarget(c.registry, c.heap[batch[i]].role, now)
          IN IF set = {} THEN tgt[i] = NoUrl ELSE tgt[i] \in set

\* tick() from the dispatch on: the fetchPromises of the batch (a decision's
\* url, else the local policy's), then the rest of the tick.  loops is the
\* number of pending simLoop invocations besides this one.
Continue(c, id, batch, llm, decisions, tgt, stored, role, loops) ==
  LET target == [i \in DOMAIN batch |->
                   IF batch[i] \in DOMAIN decisions THEN decisions[batch[i]] ELSE tgt[i]]
      c2 == Dispatch(c, batch, target)
      d == Dispatched(batch, target)
      ops2 == [a \in DOMAIN ops \cup d |->
                 IF a \in d THEN [url |-> TargetOf(batch, target, a), tick |-> id]
                 ELSE ops[a]]
      rest == {t \in DOMAIN openTicks : t # id}
  IN /\ ops' = ops2
     /\ IF d = {}
        THEN /\ colony' = Collect(TickTail(c2, stored, role, clock'), DOMAIN ops2)
             /\ openTicks' = [t \in rest |-> openTicks[t]]
             /\ timers' = loops + 1
        ELSE /\ colony' = IF deliveryPrecedesAwait
                          THEN Collect(TickTail(c2, stored, role, clock'), DOMAIN ops2)
                          ELSE c2
             /\ openTicks' = [t \in rest \cup {id} |->
                                IF t = id
                                THEN [phase |-> "fetches", batch |-> batch,
                                      llm |-> llm, tail |-> deliveryPrecedesAwait]
                                ELSE openTicks[t]]
             /\ timers' = loops

Targets == [1..MAX_CONCURRENT_FETCHES -> FoodUrls \cup {NoUrl}]

\* The inputs of the rest of a tick that matter: the number of cookies the
\* deliveries leave (between one and one per delivery) and, when an ant will
\* be spawned, the role Math.random() gives it.
TailInputs(c, stored, role) ==
  LET n == Cardinality(Returning(c))
  IN /\ stored <= Max(1, n)
     /\ (c.cookies + (IF n = 0 THEN 0 ELSE stored) < REPRODUCTION_FOOD_THRESHOLD
           => role = "worker")

\* simLoop -> colony.tick(), up to the first await on the network.
StartTick(loops) ==
  LET c1 == AdvanceAnts([colony EXCEPT !.tickCount = @ + 1])
      batch == toDispatch(c1)
      id == c1.tickCount
      how == IF isLLMEnabled(c1) /\ Len(batch) > 0 THEN getDecisions(batch) ELSE "local"
  IN IF how = "await"
     THEN /\ colony' = c1
          /\ ops' = ops
          /\ openTicks' = [t \in DOMAIN openTicks \cup {id} |->
                             IF t = id
                             THEN [phase |-> "decisions", batch |-> batch,
                                   llm |-> TRUE, tail |-> FALSE]
                             ELSE openTicks[t]]
          /\ timers' = loops
     ELSE \E tgt \in Targets, stored \in 1..MAX_CONCURRENT_FETCHES, role \in Roles :
             /\ LocalChoice(c1, batch, <<>>, tgt, clock')
             /\ TailInputs(c1, stored, role)
             /\ Continue(c1, id, batch, isLLMEnabled(c1), <<>>, tgt, stored, role, loops)

\* tick() after await this.llmOrchestrator.getDecisions(toDispatch): the
\* decisions of the source for tick id, the local policy for the others.
DecisionsArrive(id, tgt, stored, role) ==
  LET batch == openTicks[id].batch
      decisions == parseDecisions(source, batch)
  IN /\ LocalChoice(colony, batch, decisions, tgt, clock)
     /\ TailInputs(colony, stored, role)
     /\ clock' = clock
     /\ Continue(colony, id, batch, TRUE, decisions, tgt, stored, role, timers)
     /\ UNCHANGED <<running, clicks, probe, source>>

\* The fetch of ant a answers: the rest of _dispatchAntWithTarget runs.  When
\* it is the last operation of its tick, Promise.allSettled resolves, tick()
\* returns and simLoop arms its timer.
OperationSettles(a, status, rtt, stored, role) ==
  LET op == ops[a]
      res == forage(NodeOf(op.url), status, rtt)
      c1 == applyOutcome(colony, a, op.url, res, clock)
      left == DOMAIN ops \ {a}
      last == \A b \in left : ops[b].tick # op.tick
      c2 == IF last /\ ~openTicks[op.tick].tail
            THEN TickTail(c1, stored, role, clock) ELSE c1
  IN /\ ops' = [b \in left |-> ops[b]]
     /\ colony' = c2
     /\ openTicks' = IF last
                     THEN [t \in DOMAIN openTicks \ {op.tick} |-> openTicks[t]]
                     ELSE openTicks
     /\ timers' = IF last THEN timers + 1 ELSE timers
     /\ UNCHANGED <<running, clock, clicks, source>>

\* The network calls that can answer: the forage operations in flight, and
\* the decision calls the source answers.
Calls ==
  {[kind |-> "forage", id |-> a] : a \in DOMAIN ops}
  \cup {[kind |-> "decisions", id |-> t] :
          t \in {u \in DOMAIN openTicks :
                   openTicks[u].phase = "decisions" /\ source.answers}}

\* Does the tick that ends with the operation of ant a still have to run
\* its delivery and the steps after it?
TailPending(a) ==
  /\ ~openTicks[ops[a].tick].tail
  /\ \A b \in DOMAIN ops \ {a} : ops[b].tick # ops[a].tick

\* A network task: one call answers.
Settle ==
  \E call \in Calls :
    IF call.kind = "forage"
    THEN \E status \in Statuses, rtt \in RTTs :
         \E stored \in IF TailPending(call.id) THEN 1..MAX_CONCURRENT_FETCHES ELSE {1},
            role \in IF TailPending(call.id) THEN Roles ELSE {"worker"} :
            /\ stored <= Max(1, Cardinality(Returning(colony)) + 1)
            /\ OperationSettles(call.id, status, rtt, stored, role)
            /\ probe' = probe
    ELSE \E tgt \in Targets, stored \in 1..MAX_CONCURRENT_FETCHES, role \in Roles :
            DecisionsArrive(call.id, tgt, stored, role)

\* setTimeout(simLoop, TICK_INTERVAL_MS) fires, or main() makes the first
\* call: simLoop returns when paused, else runs a tick.
TimerFire ==
  /\ timers > 0
  /\ UNCHANGED <<running, clicks, probe, source>>
  /\ IF ~running
     THEN /\ timers' = timers - 1
          /\ UNCHANGED <<colony, ops, openTicks, clock>>
     ELSE /\ colony.tickCount < MaxTicks
          /\ clock' = clock + TICK_INTERVAL_MS
          /\ StartTick(timers - 1)

\* The click handler of btn-pause: running = !running; when running,
\* simLoop() is called from the handler.
PauseClick ==
  /\ clicks < MaxClicks
  /\ clicks' = clicks + 1
  /\ running' = ~running
  /\ clock' = clock
  /\ UNCHANGED <<probe, source>>
  /\ IF running
     THEN UNCHANGED <<colony, ops, openTicks, timers>>
     ELSE /\ timers + Cardinality(DOMAIN openTicks) < MaxLoops
          /\ colony.tickCount < MaxTicks
          /\ StartTick(timers)

\* settingsPanel.onModeChangeCallback with a configured provider:
\* colony.setLLMManager(llmManager) for 'llm', colony.llmMode = false else.
ModeChange(mode) ==
  /\ clicks < MaxClicks
  /\ clicks' = clicks + 1
  /\ colony.llmMode # (mode = "llm")
  /\ colony' = [colony EXCEPT !.llmMode = (mode = "llm")]
  /\ UNCHANGED <<ops, openTicks, running, timers, clock, probe, source>>

\* ------------------------------------------------------------ initial state
\* The ants Colony._loadAnts restores from the persisted snapshot: NumAnts
\* ants, the first of them nearly starved.
LowEnergy == 25
InitAnt(i) ==
  [NewAnt(IF i % 2 = 0 THEN "scout" ELSE "worker") EXCEPT
     !.energy = IF i = 1 THEN LowEnergy ELSE @]

\* The external source either never answers or sends every ant to the
\* second food endpoint.
Silent == [answers |-> FALSE, json |-> FALSE, decisions |-> <<>>]
Answer == [answers |-> TRUE, json |-> TRUE,
           decisions |-> [i \in 1..NumAnts |-> [antId |-> i, targetUrl |-> "pokeapi"]]]

InitColony ==
  LET heap == [i \in 1..NumAnts |-> InitAnt(i)]
      stats == [totalFood |-> 0, totalDeaths |-> 0, totalBirths |-> 0]
  IN [ ants |-> [i \in 1..NumAnts |-> i], heap |-> heap, activeFetches |-> 0,
       cookies |-> 0, stats |-> stats, tickCount |-> 0, registry |-> <<>>,
       saved |-> [ants |-> [i \in 1..NumAnts |-> serialise(heap[i])], stats |-> stats],
       llmMode |-> FALSE, nextId |-> NumAnts + 1 ]

NoProbe == [kind |-> "none"]

InitWith(src) ==
  /\ colony = InitColony
  /\ ops = <<>>
  /\ openTicks = <<>>
  /\ running = TRUE
  /\ timers = 1
  /\ clock = 0
  /\ clicks = 0
  /\ probe = NoProbe
  /\ source = src

Init == InitWith(Answer)

Next ==
  \/ TimerFire
  \/ PauseClick
  \/ Settle
  \/ \E mode \in {"llm", "local"} : ModeChange(mode)

Spec == Init /\ [][Next]_vars

\* Fairness: a network call that can answer does answer (every fetch of
\* the topology carries AbortSignal.timeout).  The external source never
\* answers.  Timers need no fairness here: a tick that has started waits for
\* network calls only.
FairSpec ==
  InitWith(Silent) /\ [][Next]_vars /\ WF_vars(Settle)

\* ------------------------------------------------------------ decisions, alone
\* _parseDecisions and its use by tick(), for every response of a bounded
\* shape: the first tick of the initial colony awaits the decisions for its batch (the
\* first three ants); the response has at most MaxEntries entries.
MaxEntries == 2
Entries ==
  [antId : {0, 1, NumAnts}, targetUrl : {NoUrl, "pokeapi", "s429", "evil"}]
Bodies == UNION {[1..n -> Entries] : n \in 0..MaxEntries}
Responses ==
  {[answers |-> TRUE, json |-> j, decisions |-> b] : j \in BOOLEAN, b \in Bodies}

InitDecisions ==
  LET c0 == [InitColony EXCEPT !.llmMode = TRUE, !.tickCount = 1]
      c1 == AdvanceAnts(c0)
  IN /\ colony = c1
     /\ ops = <<>>
     /\ openTicks = [t \in {1} |-> [phase |-> "decisions", batch |-> toDispatch(c1),
                                    llm |-> TRUE, tail |-> FALSE]]
     /\ running = TRUE
     /\ timers = 0
     /\ clock = TICK_INTERVAL_MS
     /\ clicks = 0
     /\ probe = NoProbe
     /\ source \in Responses

\* The source answers the decision call of a tick.
DecisionsAnswer ==
  \E t \in {u \in DOMAIN openTicks : openTicks[u].phase = "decisions"} :
  \E tgt \in Targets, stored \in 1..MAX_CONCURRENT_FETCHES, role \in Roles :
     DecisionsArrive(t, tgt, stored, role)

SpecDecisions == InitDecisions /\ [][DecisionsAnswer]_vars

\* ------------------------------------------------------------ reproduction, alone
\* _tryReproduce (with consume and _spawnAnt) on colonies of every size
\* within SizeMargin of one ant and of MAX_COLONY_SIZE, with up to MaxCookies
\* cookies stored.
SizeMargin == 2
MaxCookies == 9
ColonySizes == 1..(1 + SizeMargin) \cup (MAX_COLONY_SIZE - SizeMargin)..MAX_COLONY_SIZE

ColonyOf(n, k) ==
  [InitColony EXCEPT !.ants = [i \in 1..n |-> i],
                     !.heap = [i \in 1..n |-> NewAnt("worker")],
                     !.cookies = k,
                     !.nextId = n + 1]

InitHarness ==
  /\ colony = InitColony
  /\ ops = <<>>
  /\ openTicks = <<>>
  /\ running = FALSE
  /\ timers = 0
  /\ clock = 0
  /\ clicks = 0
  /\ source = Silent

InitReproduce ==
  /\ InitHarness
  /\ \E n \in ColonySizes, k \in 0..MaxCookies :
        probe = [kind |-> "tryReproduce", done |-> FALSE,
                 arg |-> ColonyOf(n, k), out |-> ColonyOf(n, k)]

\* tick() step 5: this._tryReproduce()
Reproduces ==
  /\ ~probe.done
  /\ \E role \in Roles :
        probe' = [probe EXCEPT !.done = TRUE, !.out = tryReproduce(probe.arg, role)]
  /\ UNCHANGED <<colony, ops, openTicks, running, timers, clock, clicks, source>>

SpecReproduce == InitReproduce /\ [][Reproduces]_vars

\* ------------------------------------------------------------ forage, alone
\* NetworkTopology.forage for every node of the topology, every answer of
\* the network in HttpStatuses (0: no answer, the fetch rejects) and every
\* round trip in RoundTrips.
HttpStatuses == {200, 204, 404, 429, 500, 503, 0}
RoundTrips == {120, 7990}

InitForage ==
  /\ InitHarness
  /\ \E n \in Range(nodes), status \in HttpStatuses, rtt \in RoundTrips :
        probe = [kind |-> "forage", done |-> FALSE,
                 arg |-> [source |-> n, status |-> status, rtt |-> rtt],
                 out |-> Threw]

\* const result = await this.topology.forage(source)
Forages ==
  /\ ~probe.done
  /\ probe' = [probe EXCEPT !.done = TRUE,
                            !.out = forage(probe.arg.source, probe.arg.status,
                                           probe.arg.rtt)]
  /\ UNCHANGED <<colony, ops, openTicks, running, timers, clock, clicks, source>>

SpecForage == InitForage /\ [][Forages]_vars

\* ------------------------------------------------------------ outcomes, alone
\* One agent in flight and the end of its operation.  The agent is as
\* _dispatchAntWithTarget left it, with any energy in FlightEnergies, or it
\* died of a tick while in flight.  The result is any value forage or a
\* topology can hand over.
FlightEnergies == {100, 120, 121, 1000, 1500, 1501, 3000, 5000, 5001, 8000}
SpentEnergies == {-5, 0}
Dangers == {"predator", "storm", "timeout", "camouflage", "swamp"}
Results ==
  {Threw}
  \cup {Outcome(TRUE, 200, rtt, "none") : rtt \in RoundTrips}
  \cup {Outcome(FALSE, 0, rtt, d) : rtt \in RoundTrips, d \in Dangers}

InFlight(e, url) ==
  [NewAnt("worker") EXCEPT !.energy = e,
                           !.state = IF e > 0 THEN "fetching" ELSE "dead",
                           !.currentUrl = url,
                           !.forageCooldown = FORAGE_COOLDOWN_TICKS]

OneInFlight(e, url) ==
  [ColonyOf(1, 0) EXCEPT !.heap[1] = InFlight(e, url), !.activeFetches = 1]

\* What the agent has visited before: nothing yet, or as many targets as
\* serialise keeps (visitedUrls.slice(-20)).
VISITED_KEPT == 20
VisitedBefore == {<<>>, [k \in 1..VISITED_KEPT |-> "posts"]}

\* A node of the topology, or the same node without a damage of its own.
Sources == Range(nodes) \cup {[n EXCEPT !.damage = 0] : n \in Range(nodes)}

InitOutcome ==
  /\ InitHarness
  /\ \E e \in FlightEnergies \cup SpentEnergies, seen \in VisitedBefore :
        \/ \E url \in NodeUrls, res \in Results :
              LET c == [OneInFlight(e, url) EXCEPT !.heap[1].visitedUrls = seen]
              IN probe = [kind |-> "outcome", done |-> FALSE,
                          arg |-> [c |-> c, source |-> NodeOf(url), res |-> res],
                          out |-> c]
        \/ \E src \in Sources, res \in Results \ {Threw} :
              LET c == [OneInFlight(e, src.url) EXCEPT !.heap[1].visitedUrls = seen]
              IN /\ ~res.success
                 /\ probe = [kind |-> "danger", done |-> FALSE,
                             arg |-> [c |-> c, source |-> src, res |-> res],
                             out |-> c]

\* _dispatchAntWithTarget from the end of its await
OutcomeApplies ==
  /\ probe.kind = "outcome" /\ ~probe.done
  /\ probe' = [probe EXCEPT !.done = TRUE,
                            !.out = applyOutcome(probe.arg.c, 1, probe.arg.source.url,
                                                 probe.arg.res, clock)]
  /\ UNCHANGED <<colony, ops, openTicks, running, timers, clock, clicks, source>>

\* this._handleDanger(ant, target, result)
DangerStrikes ==
  /\ probe.kind = "danger" /\ ~probe.done
  /\ probe' = [probe EXCEPT !.done = TRUE,
                            !.out = handleDanger(probe.arg.c, 1, probe.arg.source,
                                                 probe.arg.res, clock)]
  /\ UNCHANGED <<colony, ops, openTicks, running, timers, clock, clicks, source>>

SpecOutcome == InitOutcome /\ [][OutcomeApplies \/ DangerStrikes]_vars

\* ------------------------------------------------------------ one agent, alone
\* An agent as the program can hold it, with the id the constructor gave
\* it: alive with energy left, or dead with none.  It is ticked, or written
\* and restored; and a colony of two such agents is saved.
AliveEnergies == {10, 15, 16, 8000}
Cooldowns == {0, 1, FORAGE_COOLDOWN_TICKS}
Ages == {0, 7}
Ids == {"ant_a"}
Fresh == "ant_fresh"

Agents ==
  { [id |-> id] @@ [NewAnt(role) EXCEPT !.energy = e, !.state = st,
                                        !.carrying = food, !.forageCooldown = cd,
                                        !.ticksAlive = age,
                                        !.currentUrl = IF st = "fetching" THEN "posts"
                                                       ELSE NoUrl] :
      id \in Ids, role \in Roles,
      e \in AliveEnergies \cup SpentEnergies,
      st \in {"idle", "fetching", "returning", "dead"},
      food \in {NoFood, "sugar"}, cd \in Cooldowns, age \in Ages }

Living == {a \in Agents : (a.state = "dead") = (a.energy <= 0)}

SavedColony(s1, s2) ==
  [ColonyOf(2, 0) EXCEPT !.heap[1].state = s1, !.heap[2].state = s2,
                         !.tickCount = SAVE_EVERY_TICKS]

InitAnts ==
  /\ InitHarness
  /\ \/ \E a \in Living :
          probe = [kind |-> "ant", done |-> FALSE, op |-> "none", arg |-> a, out |-> a]
     \/ \E s1, s2 \in {"idle", "fetching", "returning"} :
          probe = [kind |-> "save", done |-> FALSE, op |-> "none",
                   arg |-> SavedColony(s1, s2), out |-> SavedColony(s1, s2)]

\* ant.tick()
AntTicks ==
  /\ probe.kind = "ant" /\ ~probe.done
  /\ probe' = [probe EXCEPT !.done = TRUE, !.op = "tick", !.out = AntTick(probe.arg)]
  /\ UNCHANGED <<colony, ops, openTicks, running, timers, clock, clicks, source>>

\* new Ant(ant.serialise())
AntRestores ==
  /\ probe.kind = "ant" /\ ~probe.done
  /\ probe' = [probe EXCEPT !.done = TRUE, !.op = "restore",
                            !.out = Ant(serialise(probe.arg), Fresh)]
  /\ UNCHANGED <<colony, ops, openTicks, running, timers, clock, clicks, source>>

\* this._saveAnts()
AntsSaved ==
  /\ probe.kind = "save" /\ ~probe.done
  /\ probe' = [probe EXCEPT !.done = TRUE, !.op = "save", !.out = saveAnts(probe.arg)]
  /\ UNCHANGED <<colony, ops, openTicks, running, timers, clock, clicks, source>>

SpecAnts == InitAnts /\ [][AntTicks \/ AntRestores \/ AntsSaved]_vars

\* ------------------------------------------------------------ deposits, alone
\* Up to MaxDeposits deposits on one endpoint of an empty registry, with
\* the clock standing still; sum and n keep what was supplied.
MaxDeposits == 11
Latencies == {100, 120, 250}

InitDeposits ==
  /\ InitHarness
  /\ probe = [kind |-> "deposit", registry |-> <<>>, sum |-> 0, n |-> 0]

\* this.pheromones.deposit(target.url, result.rtt)
Deposits ==
  /\ probe.n < MaxDeposits
  /\ \E rtt \in Latencies :
        probe' = [probe EXCEPT !.registry = deposit(@, "posts", rtt, clock),
                               !.sum = @ + rtt,
                               !.n = @ + 1]
  /\ UNCHANGED <<colony, ops, openTicks, running, timers, clock, clicks, source>>

SpecDeposits == InitDeposits /\ [][Deposits]_vars

\* ------------------------------------------------------------ the registry, alone
\* Calls on the registry in any order while the clock runs: deposit and
\* depositRepellent on one endpoint, prune, and reads at any time.  The
\* registry starts as load() can leave it, with a strong record of another
\* endpoint and with or without a record of the endpoint itself.  made
\* keeps, for the record of the endpoint, the deposits since it was created
\* (their number n and the sum of their latencies); forgotten holds the
\* endpoints prune has removed.
MaxCalls == 6
Elapse == 24000
MaxElapses == 3

Loaded(intensity, visits, rtt) ==
  [intensity |-> intensity, lastSeen |-> 0, avgRTT |-> Rat(rtt, 1), visits |-> visits]

LoadedRegistries ==
  { [u \in {"pokeapi"} |-> Loaded(PHEROMONE_MAX_INTENSITY, 12, 250)],
    [u \in {"pokeapi", "posts"} |->
        IF u = "pokeapi" THEN Loaded(PHEROMONE_MAX_INTENSITY, 12, 250)
        ELSE Loaded(PHEROMONE_MAX_INTENSITY - 1, 9, 120)] }

InitRegistry ==
  /\ InitHarness
  /\ \E r \in LoadedRegistries :
        probe = [kind |-> "registry", registry |-> r, calls |-> 0,
                 made |-> IF "posts" \in DOMAIN r
                          THEN [n |-> r["posts"].visits,
                                sum |-> r["posts"].visits * r["posts"].avgRTT[1]]
                          ELSE [n |-> 0, sum |-> 0],
                 forgotten |-> {}]

\* this.pheromones.deposit(target.url, result.rtt)
RegistryDeposit ==
  /\ probe.calls < MaxCalls
  /\ \E rtt \in Latencies :
        probe' = [probe EXCEPT
                    !.registry = deposit(@, "posts", rtt, clock),
                    !.calls = @ + 1,
                    !.made = IF "posts" \in DOMAIN probe.registry
                             THEN [n |-> @.n + 1, sum |-> @.sum + rtt]
                             ELSE [n |-> 1, sum |-> rtt]]
  /\ UNCHANGED <<colony, ops, openTicks, running, timers, clock, clicks, source>>

\* this.pheromones.depositRepellent(source.url)
RegistryRepellent ==
  /\ probe.calls < MaxCalls
  /\ probe' = [probe EXCEPT
                 !.registry = depositRepellent(@, "posts", clock),
                 !.calls = @ + 1,
                 !.made = IF "posts" \in DOMAIN probe.registry THEN @
                          ELSE [n |-> 0, sum |-> 0]]
  /\ UNCHANGED <<colony, ops, openTicks, running, timers, clock, clicks, source>>

\* this.pheromones.prune()
RegistryPrune ==
  /\ probe' = [probe EXCEPT
                 !.registry = prune(@, clock),
                 !.forgotten = @ \cup (DOMAIN probe.registry
                                         \ DOMAIN prune(probe.registry, clock))]
  /\ UNCHANGED <<colony, ops, openTicks, running, timers, clock, clicks, source>>

\* Date.now() moves on.
TimePasses ==
  /\ clock < MaxElapses * Elapse
  /\ clock' = clock + Elapse
  /\ UNCHANGED <<colony, ops, openTicks, running, timers, clicks, probe, source>>

SpecRegistry ==
  InitRegistry
  /\ [][RegistryDeposit \/ RegistryRepellent \/ RegistryPrune \/ TimePasses]_vars

\* ------------------------------------------------------------ delivery, alone
\* The delivery step of one tick on a colony of three agents, each idle or
\* returning with a packet, with energy far from or near the maximum.
\* stored is the number of different cookie names the step writes: every
\* delivery names its cookie by Date.now(), so deliveries within one
\* millisecond write the same cookie.
Carriers == 3
CarrierEnergies == {5000, 8000}

Carrier(e, st) ==
  [NewAnt("worker") EXCEPT !.energy = e, !.state = st,
                           !.carrying = IF st = "returning" THEN "sugar" ELSE NoFood,
                           !.currentUrl = IF st = "returning" THEN "posts" ELSE NoUrl]

InitDelivery ==
  /\ InitHarness
  /\ \E e \in [1..Carriers -> CarrierEnergies],
        st \in [1..Carriers -> {"idle", "returning"}],
        k \in {0, REPRODUCTION_FOOD_THRESHOLD - 1} :
        LET c == [ColonyOf(Carriers, k) EXCEPT
                    !.heap = [i \in 1..Carriers |-> Carrier(e[i], st[i])]]
        IN probe = [kind |-> "delivery", done |-> FALSE, arg |-> c, out |-> c]

\* tick() step 3: for (const ant of this.ants) ... this._deliverFood(ant)
Delivers ==
  /\ ~probe.done
  /\ \E stored \in 1..Max(1, Cardinality(Returning(probe.arg))) :
        probe' = [probe EXCEPT !.done = TRUE, !.out = Deliver(probe.arg, stored)]
  /\ UNCHANGED <<colony, ops, openTicks, running, timers, clock, clicks, source>>

SpecDelivery == InitDelivery /\ [][Delivers]_vars

\* ------------------------------------------------------------ bootstrap, alone
\* main(): new Colony(), await colony.init(), simLoop().  The stores are as
\* an earlier session, or a fault, can leave them: the database of the
\* registry opens and reads, fails to open, or fails to read; the snapshot
\* of the agents and the one of the counters are absent, unreadable, or
\* hold what _saveAnts wrote (an empty list when every agent had died).
INITIAL_COLONY_SIZE == 20

ZeroStats == [totalFood |-> 0, totalDeaths |-> 0, totalBirths |-> 0]
SavedAnt(st) ==
  [id |-> "ant_a"] @@ serialise([NewAnt("worker") EXCEPT !.state = st, !.ticksAlive = 7])

AntStores ==
  {[kind |-> "absent", list |-> <<>>], [kind |-> "unreadable", list |-> <<>>],
   [kind |-> "list", list |-> <<>>],
   [kind |-> "list", list |-> <<SavedAnt("idle")>>],
   [kind |-> "list", list |-> <<SavedAnt("fetching"), SavedAnt("dead")>>]}
StatStores ==
  {[kind |-> "absent", value |-> ZeroStats], [kind |-> "unreadable", value |-> ZeroStats],
   [kind |-> "value", value |-> [totalFood |-> 7, totalDeaths |-> 25, totalBirths |-> 25]],
   [kind |-> "value", value |-> [totalFood |-> 3, totalDeaths |-> 0, totalBirths |-> 2]]}
Stores ==
  [db : {"ok", "openFails", "readFails"}, records : LoadedRegistries,
   ants : AntStores, stats : StatStores]

\* new Colony()
NewColony ==
  [InitColony EXCEPT !.ants = <<>>, !.heap = <<>>, !.nextId = 1,
                     !.saved = [ants |-> <<>>, stats |-> ZeroStats]]

\* Colony._loadAnts: a snapshot that cannot be read or parsed throws, and
\* the catch block empties the population.
loadAnts(c, store) ==
  IF store.ants.kind = "unreadable" THEN [c EXCEPT !.ants = <<>>, !.heap = <<>>]
  ELSE LET n == Len(store.ants.list)
           c1 == IF store.ants.kind = "absent" THEN c
                 ELSE [c EXCEPT !.ants = [i \in 1..n |-> i],
                                !.heap = [i \in 1..n |-> Ant(store.ants.list[i], Fresh)],
                                !.nextId = n + 1]
       IN IF store.stats.kind = "absent" THEN c1
          ELSE IF store.stats.kind = "unreadable"
          THEN [c1 EXCEPT !.ants = <<>>, !.heap = <<>>, !.nextId = 1]
          ELSE [c1 EXCEPT !.stats = store.stats.value]

\* for (let i = 0; i < CONFIG.INITIAL_COLONY_SIZE; i++) this._spawnAnt()
RECURSIVE spawnAnts(_, _, _)
spawnAnts(c, n, role) ==
  IF n = 0 THEN c ELSE spawnAnts(spawnAnt(c, role[n]), n - 1, role)

\* Colony.init: a rejected await leaves the colony as it was and init
\* rejects; load() sets the records of the database in the registry.
init(c, store, role) ==
  IF store.db # "ok" THEN [threw |-> TRUE, c |-> c]
  ELSE LET known == DOMAIN c.registry \cup DOMAIN store.records
           loaded == [u \in known |-> IF u \in DOMAIN store.records
                                       THEN store.records[u] ELSE c.registry[u]]
           c1 == loadAnts([c EXCEPT !.registry = loaded], store)
       IN [threw |-> FALSE,
           c |-> IF Len(c1.ants) = 0
                 THEN [spawnAnts(c1, INITIAL_COLONY_SIZE, role)
                         EXCEPT !.stats.totalBirths = INITIAL_COLONY_SIZE]
                 ELSE c1]

\* What Math.random() < 0.2 makes of the roles of the agents spawned.
AllWorkers == [i \in 1..INITIAL_COLONY_SIZE |-> "worker"]
EveryFifthScout == [i \in 1..INITIAL_COLONY_SIZE |-> IF i % 5 = 0 THEN "scout" ELSE "worker"]

InitBootstrap ==
  /\ InitHarness
  /\ \E store \in Stores :
        probe = [kind |-> "bootstrap", done |-> FALSE, arg |-> store]

\* main(): await colony.init(); ...; simLoop().  When init rejects, main
\* rejects with it and simLoop is never called.
Bootstrap ==
  /\ ~probe.done
  /\ \E scouts \in BOOLEAN :
        LET r == IF scouts THEN init(NewColony, probe.arg, EveryFifthScout)
                 ELSE init(NewColony, probe.arg, AllWorkers)
        IN /\ colony' = r.c
           /\ running' = ~r.threw
           /\ timers' = IF r.threw THEN 0 ELSE 1
  /\ probe' = [probe EXCEPT !.done = TRUE]
  /\ UNCHANGED <<ops, openTicks, clock, clicks, source>>

SpecBootstrap == InitBootstrap /\ [][Bootstrap]_vars

\* ------------------------------------------------------------ the loop and errors
\* simLoop around a tick in which something fails.  A fault is what is
\* raised during the tick: the external policy fails, a network operation
\* throws, the snapshot cannot be written, the flush of the registry
\* rejects, or tick() itself throws elsewhere.  probe.pending holds the
\* faults of the calls of simLoop that await their tick, probe.ticks counts
\* the ticks started and probe.last is the fault of the tick that ended
\* last.
MaxLoopTicks == 4
Faults == {"none", "policy", "network", "save", "flush", "tick"}

\* A fault: simLoop without its try / catch.
simLoopLetsThrough == FALSE
\* simLoop: try { await colony.tick() } catch (err) { console.error(...) }
simLoopCatches == TRUE

\* Colony.tick with one fault: the promise it returns resolves when the
\* fault is caught inside (getDecisions in the try of the tick, forage in
\* the try of _dispatchAntWithTarget and under Promise.allSettled, setItem
\* in the try of _saveAnts) or raised in a promise nobody awaits (flush),
\* and rejects otherwise.
tick(fault) ==
  IF fault \in {"none", "policy", "network", "save", "flush"} THEN "resolved"
  ELSE "rejected"

InitLoop ==
  /\ colony = InitColony /\ ops = <<>> /\ openTicks = <<>>
  /\ running = TRUE /\ timers = 1 /\ clock = 0 /\ clicks = 0 /\ source = Silent
  /\ probe = [kind |-> "loop", pending |-> <<>>, ticks |-> 0, last |-> "none"]

\* simLoop() up to await colony.tick()
simLoopCalled(t) ==
  IF ~running THEN /\ timers' = t
                   /\ probe' = probe
  ELSE /\ probe.ticks < MaxLoopTicks
       /\ timers' = t
       /\ \E fault \in Faults :
             probe' = [probe EXCEPT !.pending = Append(@, fault), !.ticks = @ + 1]

\* The timer of setTimeout(simLoop, TICK_INTERVAL_MS) fires.
LoopTimerFires ==
  /\ timers > 0
  /\ simLoopCalled(timers - 1)
  /\ clock' = clock + TICK_INTERVAL_MS
  /\ UNCHANGED <<colony, ops, openTicks, running, clicks, source>>

\* The tick of one call of simLoop settles: the rest of simLoop runs.
LoopTickSettles ==
  /\ \E i \in DOMAIN probe.pending :
        LET armed == simLoopCatches \/ tick(probe.pending[i]) = "resolved"
        IN /\ probe' = [probe EXCEPT
                          !.pending = SubSeq(@, 1, i - 1) \o SubSeq(@, i + 1, Len(@)),
                          !.last = probe.pending[i]]
           /\ timers' = IF armed THEN timers + 1 ELSE timers
  /\ UNCHANGED <<colony, ops, openTicks, running, clock, clicks, source>>

\* The click handler of btn-pause.
LoopPauseClick ==
  /\ clicks < MaxClicks
  /\ clicks' = clicks + 1
  /\ running' = ~running
  /\ IF running THEN UNCHANGED <<timers, probe>>
     ELSE /\ timers + Len(probe.pending) < MaxLoops
          /\ probe.ticks < MaxLoopTicks
          /\ timers' = timers
          /\ \E fault \in Faults :
                probe' = [probe EXCEPT !.pending = Append(@, fault), !.ticks = @ + 1]
  /\ UNCHANGED <<colony, ops, openTicks, clock, source>>

NextLoop == LoopTimerFires \/ LoopTickSettles \/ LoopPauseClick
SpecLoop ==
  InitLoop /\ [][NextLoop]_vars /\ WF_vars(LoopTimerFires) /\ WF_vars(LoopTickSettles)

\* ------------------------------------------------------------ selection, alone
\* _dispatchAnt for one idle agent of either role: _selectTarget on the food
\* nodes of a topology (both, one, or none at all) with, for each endpoint,
\* no record or a record of an intensity in Intensities, read SelectDelays
\* ms after it was written; then _dispatchAntWithTarget for the node
\* returned.
Intensities == {-10, -2, -1, 1, 10}
SelectDelays == {0, 2000, 7000}
FoodLists == {<<>>, SubSeq(getFoodNodes, 1, 1), getFoodNodes}

InitSelect ==
  /\ InitHarness
  /\ \E food \in FoodLists, role \in Roles, now \in SelectDelays,
        known \in SUBSET FoodUrls :
        \E level \in [known -> Intensities] :
           LET c == [ColonyOf(1, 0) EXCEPT
                       !.heap[1].role = role,
                       !.registry = [u \in known |-> Loaded(level[u], 1, 120)]]
           IN probe = [kind |-> "select", done |-> FALSE,
                       arg |-> [food |-> food, c |-> c, now |-> now],
                       choice |-> {}, out |-> c]

\* const target = this._selectTarget(ant); if (!target) return;
\* return this._dispatchAntWithTarget(ant, target.url)
Selects ==
  /\ ~probe.done
  /\ LET set == selectAmong(probe.arg.food, probe.arg.c.registry,
                            probe.arg.c.heap[1].role, probe.arg.now)
     IN \E t \in (IF set = {} THEN {NoUrl} ELSE set) :
           probe' = [probe EXCEPT !.done = TRUE, !.choice = set,
                                  !.out = Dispatch(probe.arg.c, <<1>>, <<t>>)]
  /\ UNCHANGED <<colony, ops, openTicks, running, timers, clock, clicks, source>>

SpecSelect == InitSelect /\ [][Selects]_vars

\* ------------------------------------------------------------ seasons
\* The loop of main() over MaxSeasonTicks ticks without a pause: the timer
\* fires and a tick runs, the network answers.  The colony is one a snapshot
\* of one or two agents gives (the first of them weak, with some food
\* stored), the one a bootstrap without a snapshot spawns, or one of
\* MAX_COLONY_SIZE agents with food stored, in the last of the ticks, whose
\* first agent is about to starve.  In a colony of more than NumAnts agents every forage goes to the
\* first food endpoint and succeeds.  trips keeps, for every agent, the
\* ticks that dispatched it; inits is the number of init() calls awaiting.
MaxSeasonTicks == 6
WeakEnergy == 150
FoodStored == 4

\* The stores with no snapshot and no record in them.
NoSnapshot == [db |-> "ok", records |-> <<>>,
               ants |-> [kind |-> "absent", list |-> <<>>],
               stats |-> [kind |-> "absent", value |-> ZeroStats]]

Nest == init(NewColony, NoSnapshot, AllWorkers).c

SeasonColonies ==
  {[ColonyOf(n, k) EXCEPT !.heap[1].energy = WeakEnergy, !.stats.totalBirths = n] :
      n \in 1..2, k \in {0, FoodStored}}
  \cup {Nest}
  \cup {[ColonyOf(MAX_COLONY_SIZE, FoodStored + 1) EXCEPT
           !.heap[1].energy = ANT_ENERGY_DECAY_PER_TICK,
           !.stats.totalBirths = MAX_COLONY_SIZE,
           !.tickCount = MaxSeasonTicks - 1]}

InitSeason ==
  /\ \E c \in SeasonColonies : colony = c
  /\ ops = <<>>
  /\ openTicks = <<>>
  /\ running = TRUE
  /\ timers = 1
  /\ clock = 0
  /\ clicks = 0
  /\ probe = [kind |-> "season", trips |-> <<>>, inits |-> 0]
  /\ source = Silent

\* setTimeout(simLoop, TICK_INTERVAL_MS) fires: colony.tick() up to its await
SeasonTick ==
  /\ timers > 0
  /\ colony.tickCount < MaxSeasonTicks
  /\ clock' = clock + TICK_INTERVAL_MS
  /\ StartTick(timers - 1)
  /\ Len(colony.ants) > NumAnts => \A a \in DOMAIN ops' \ DOMAIN ops : ops'[a].url = "posts"
  /\ probe' = [probe EXCEPT
                 !.trips = [a \in DOMAIN @ \cup (DOMAIN ops' \ DOMAIN ops) |->
                              IF a \in DOMAIN ops' \ DOMAIN ops
                              THEN (IF a \in DOMAIN @ THEN Append(@[a], colony'.tickCount)
                                    ELSE <<colony'.tickCount>>)
                              ELSE @[a]]]
  /\ UNCHANGED <<running, clicks, source>>

\* The fetch of an agent answers.
SeasonSettle ==
  /\ \E a \in DOMAIN ops, rtt \in RTTs,
        status \in (IF Len(colony.ants) > NumAnts THEN {200} ELSE Statuses) :
        OperationSettles(a, status, rtt, 1, "worker")
  /\ probe' = probe

SpecSeason == InitSeason /\ [][SeasonTick \/ SeasonSettle]_vars

\* ------------------------------------------------------------ reset
\* The seasons with the Reset button, pressed at most MaxResets times at any
\* moment: reset(), then init(), which completes after its awaits (ticks
\* run and operations settle in between).  The ant objects of operations in
\* flight live on outside the population.  No snapshot is written between
\* reset() and _loadAnts (MaxSeasonTicks is below SAVE_EVERY_TICKS).
MaxResets == 1

\* A fault: the counters survive the reset.
resetKeepingCounters(c, inflight) ==
  [Collect([c EXCEPT !.ants = <<>>], inflight) EXCEPT
     !.cookies = 0, !.saved = [ants |-> <<>>, stats |-> ZeroStats]]
\* Colony.reset
reset(c, inflight) ==
  [Collect([c EXCEPT !.ants = <<>>], inflight) EXCEPT
     !.cookies = 0, !.saved = [ants |-> <<>>, stats |-> ZeroStats],
     !.stats = ZeroStats]

\* The click handler of btn-reset: colony.reset(); colony.init()
ResetClick ==
  /\ clicks < MaxResets
  /\ clicks' = clicks + 1
  /\ colony' = reset(colony, DOMAIN ops)
  /\ probe' = [probe EXCEPT !.inits = @ + 1]
  /\ UNCHANGED <<ops, openTicks, running, timers, clock, source>>

\* colony.init() from the end of its awaits: _loadAnts and the spawns
InitCompletes ==
  /\ probe.inits > 0
  /\ colony' = init(colony, NoSnapshot, AllWorkers).c
  /\ probe' = [probe EXCEPT !.inits = @ - 1]
  /\ UNCHANGED <<ops, openTicks, running, timers, clock, clicks, source>>

\* The colony is a new one, or a single agent restored.
InitReset == InitSeason /\ Len(colony.ants) \in {1, INITIAL_COLONY_SIZE}

SpecReset ==
  InitReset /\ [][SeasonTick \/ SeasonSettle \/ ResetClick \/ InitCompletes]_vars

\* ------------------------------------------------------------ properties
\* A step in which a tick starts (tick() increments tickCount first).
TickStarts == colony'.tickCount = colony.tickCount + 1
\* The operations a step dispatches.
NewOps == DOMAIN ops' \ DOMAIN ops
\* The ticks in progress.
OpenTickCount == Cardinality(DOMAIN openTicks)

\* C1: in every reachable state activeFetches is at least 0 and at most
\* MAX_CONCURRENT_FETCHES, whatever the interleaving of timers, network
\* completions and clicks, under the local and the external policy.
C1_ActiveFetchesWithinCap ==
  colony.activeFetches \in 0..MAX_CONCURRENT_FETCHES

\* C1 at work: the cap is reached by the operations of two ticks in progress.
C1_CapReached ==
  /\ colony.activeFetches = MAX_CONCURRENT_FETCHES
  /\ OpenTickCount = 2

\* C2: ticks do not overlap, at most one Colony.tick() is in progress at any
\* time.  The code breaks it: a click on Resume calls simLoop() while the
\* tick of the paused loop still awaits its fetches.
C2_TicksDoNotOverlap ==
  OpenTickCount <= 1

\* C3: a tick with n eligible ants (canForage after the agent-tick step) and
\* k = cap - in-flight free slots dispatches exactly min(n, max(0, k)) ants,
\* each to the fetching state with one operation; every other eligible ant
\* stays idle, its cooldown and target untouched, and can forage again.
C3_Eligible ==
  {i \in Range(colony.ants) :
     /\ colony.heap[i].state = "idle"
     /\ colony.heap[i].carrying = NoFood
     /\ colony.heap[i].forageCooldown <= 1
     /\ colony.heap[i].energy > ANT_ENERGY_DECAY_PER_TICK}
C3_ExactlyTheFreeSlots ==
  [][TickStarts =>
       LET n == Cardinality(C3_Eligible)
           k == MAX_CONCURRENT_FETCHES - colony.activeFetches
       IN /\ Cardinality(NewOps) = Min(n, Max(0, k))
          /\ NewOps \subseteq C3_Eligible
          /\ colony'.activeFetches = colony.activeFetches + Cardinality(NewOps)
          /\ \A i \in NewOps : colony'.heap[i].state = "fetching"
          /\ \A i \in C3_Eligible \ NewOps :
                /\ colony'.heap[i].state = "idle"
                /\ colony'.heap[i].forageCooldown = 0
                /\ colony'.heap[i].currentUrl = colony.heap[i].currentUrl
                /\ canForage(colony'.heap[i])]_vars

\* C3 at work: a tick has dispatched three ants and left an eligible one.
C3_ThreeDispatchedOneLeft ==
  /\ Cardinality({a \in DOMAIN ops : ops[a].tick = colony.tickCount}) = 3
  /\ \E i \in Range(colony.ants) : canForage(colony.heap[i])

\* C4: dead is absorbing, no step changes a field of an ant whose state is
\* dead.  The code breaks it: with two ticks in progress (C2) the second
\* tick's Ant.tick starves a fetching ant, and the completion of its fetch
\* then writes state, carrying, energy and visitedUrls of the dead ant.
C4_DeadIsAbsorbing ==
  [][\A i \in DOMAIN colony.heap :
        (colony.heap[i].state = "dead" /\ i \in DOMAIN colony'.heap)
          => colony'.heap[i] = colony.heap[i]]_vars

\* C5: an ant carries a food packet only while its state is returning.  The
\* code breaks it: the success branch sets carrying before
\* applyLatencyPenalty, which turns a starved ant dead.
C5_CarryingOnlyWhenReturning ==
  \A i \in DOMAIN colony.heap :
     colony.heap[i].carrying # NoFood => colony.heap[i].state = "returning"

\* An ant's packet is delivered by a step.
C6_Delivered(i) ==
  /\ i \in DOMAIN colony'.heap
  /\ colony.heap[i].carrying # NoFood
  /\ colony'.heap[i].carrying = NoFood

\* C6 as the specification states it: when the delivery step of a tick runs,
\* the outcome of every operation dispatched in that tick has been applied,
\* so none of them is still in flight.
C6_DeliveryAfterOutcomes ==
  [][(\E i \in DOMAIN colony.heap : C6_Delivered(i))
       => \A a \in DOMAIN ops' : ops'[a].tick # colony'.tickCount]_vars

\* C6 as the code has it: the delivery step runs in the step that starts the
\* tick, after the dispatch and before any outcome of the tick's operations
\* is applied; it delivers the ants that were returning before the tick, so
\* food obtained by an operation is delivered by a later tick.
C6_DeliveryBeforeOutcomes ==
  [][\A i \in DOMAIN colony.heap :
        C6_Delivered(i) =>
          /\ TickStarts
          /\ colony.heap[i].state = "returning"
          /\ i \notin DOMAIN ops
          /\ colony'.stats.totalFood > colony.stats.totalFood
          /\ \A a \in NewOps : colony'.heap[a].state = "fetching"]_vars

\* C6 at work: the second tick has delivered food and its own operation is
\* still in flight.
C6_DeliveredWhileInFlight ==
  /\ colony.tickCount = 2
  /\ colony.stats.totalFood > 0
  /\ \E a \in DOMAIN ops : ops[a].tick = 2 /\ colony.heap[a].state = "fetching"

\* C7: when a tick completes no ant is left in the fetching state.  The code
\* breaks it through C2: a tick started by Resume finds no free slot or no
\* eligible ant and returns while the ants of the first tick are fetching.
C7_TickCompletes ==
  \/ OpenTickCount' < OpenTickCount
  \/ (TickStarts /\ colony'.tickCount \notin DOMAIN openTicks')
C7_NoneFetchingAtTickEnd ==
  [][C7_TickCompletes =>
       \A i \in DOMAIN colony'.heap : colony'.heap[i].state # "fetching"]_vars

\* The endpoint a validated decision of the source gives ant a of a batch:
\* the last entry for a whose endpoint is a food endpoint.
C8_Valid(a) ==
  {k \in DOMAIN source.decisions :
     source.decisions[k].antId = a /\ source.decisions[k].targetUrl \in FoodUrls}
C8_Decided(a) ==
  source.decisions[CHOOSE k \in C8_Valid(a) : \A m \in C8_Valid(a) : m <= k].targetUrl

\* C8: with the external policy active, an ant selected in a tick for which
\* the source returns a validated decision is dispatched to the endpoint of
\* that decision.  The code breaks it: getDecisions throws in
\* _buildStateSnapshot before the source is asked, and every ant of the
\* batch goes where the local policy sends it.
C8_DecisionIsFollowed ==
  [][(TickStarts /\ colony.llmMode /\ source.answers /\ source.json) =>
       \A a \in NewOps : C8_Valid(a) # {} => ops'[a].url = C8_Decided(a)]_vars

\* C9: every tick that has started completes (so it does not wait for the
\* decisions of the external source for ever and has dispatched its batch),
\* although the source never answers (fair network completions and timers).
C9_TickOpen(t) == t \in DOMAIN openTicks
C10_Batch == UNION {Range(openTicks[t].batch) : t \in DOMAIN openTicks}
C10_OnlyValidatedDecisions ==
  /\ \A t \in DOMAIN openTicks :
       LET kept == parseDecisions(source, openTicks[t].batch)
       IN \A a \in DOMAIN kept :
             /\ a \in Range(openTicks[t].batch)
             /\ kept[a] \in FoodUrls
             /\ source.json
             /\ \E k \in DOMAIN source.decisions :
                   source.decisions[k] = [antId |-> a, targetUrl |-> kept[a]]
  /\ \A a \in DOMAIN ops : a \in C10_Batch /\ ops[a].url \in FoodUrls

\* C10 at work: the response names a danger endpoint for an ant of the
\* batch, and the ant has been dispatched.
C10_DangerEntryDiscarded ==
  /\ source.json
  /\ \E a \in DOMAIN ops : \E k \in DOMAIN source.decisions :
        source.decisions[k] = [antId |-> a, targetUrl |-> "s429"]

\* C11: an ant is dispatched only if, at the moment it is moved to the
\* fetching state (after the agent-tick step of the tick that dispatches
\* it), its forageCooldown is <= 0, it carries nothing and its state is
\* idle; also under the external policy.
C11_CanForageWhenDispatched ==
  [][\A a \in NewOps :
        LET ant == colony.heap[a]
            cooldown == IF TickStarts /\ ant.forageCooldown > 0
                        THEN ant.forageCooldown - 1 ELSE ant.forageCooldown
            alive == TickStarts => ant.energy - ANT_ENERGY_DECAY_PER_TICK > 0
        IN /\ cooldown <= 0
           /\ ant.carrying = NoFood
           /\ ant.state = "idle" /\ alive
           /\ colony'.heap[a].state = "fetching"]_vars

\* C11 at work: a tick under the external policy has dispatched an ant.
C11_DispatchedUnderExternalPolicy ==
  \E t \in DOMAIN openTicks : \E a \in DOMAIN ops :
     /\ openTicks[t].llm
     /\ ops[a].tick = t
     /\ colony.heap[a].state = "fetching"
     /\ colony.heap[a].forageCooldown = FORAGE_COOLDOWN_TICKS

\* C12: the reproduction step consumes exactly one food unit and adds
\* exactly one ant when the stored food count is >= the threshold, and does
\* neither below it.  The code breaks it: at MAX_COLONY_SIZE the unit is
\* consumed and _spawnAnt returns without an ant.
C12_OneUnitOneAnt ==
  (probe.kind = "tryReproduce" /\ probe.done) =>
     LET before == probe.arg
         after == probe.out
     IN IF before.cookies >= REPRODUCTION_FOOD_THRESHOLD
        THEN /\ after.cookies = before.cookies - 1
             /\ Len(after.ants) = Len(before.ants) + 1
             /\ after.stats.totalBirths = before.stats.totalBirths + 1
        ELSE /\ after.cookies = before.cookies
             /\ after.ants = before.ants

\* The outcome the status table of the specification gives.
C13_Table(kind, status) ==
  IF status = 0 THEN "timeout"
  ELSE IF status = 429 THEN "predator"
  ELSE IF status >= 500 THEN "storm"
  ELSE IF status \notin 200..299 THEN "camouflage"
  ELSE IF kind = "food" THEN "success"
  ELSE "swamp"

\* C13: forage classifies every completed operation by the status table,
\* on food and danger endpoints alike.  The code breaks it: a food endpoint
\* answering 429 or 5xx gives camouflage, and on a danger endpoint the
\* storm, camouflage and timeout results read the undeclared rawUrl, so the
\* operation throws instead of returning an outcome.
C13_StatusTable ==
  (probe.kind = "forage" /\ probe.done) =>
     LET expected == C13_Table(probe.arg.source.kind, probe.arg.status)
     IN /\ ~probe.out.threw
        /\ probe.out.success = (expected = "success")
        /\ (expected # "success" => probe.out.danger = expected)

\* The agent of an outcome probe before and after, and whether the probe
\* ended in a danger outcome.
C14_Before == probe.arg.c.heap[1]
C14_After == probe.out.heap[1]
C14_Danger ==
  /\ probe.kind \in {"outcome", "danger"} /\ probe.done
  /\ ~probe.arg.res.threw /\ ~probe.arg.res.success

\* C14: a danger outcome takes from the agent's energy: predator the
\* endpoint's damage (50 without one), storm the endpoint's damage (30
\* without one), timeout the latency times the factor, camouflage and swamp
\* 15 each.  The code breaks it: _handleDanger has no case for swamp, which
\* takes nothing.
C14_DangerEnergy ==
  C14_Danger =>
     LET src == probe.arg.source
         res == probe.arg.res
         loss == CASE res.danger = "predator" ->
                        IF src.damage # 0 THEN src.damage ELSE 5000
                   [] res.danger = "storm" ->
                        IF src.damage # 0 THEN src.damage ELSE 3000
                   [] res.danger = "timeout" -> res.rtt * ANT_LATENCY_PENALTY_FACTOR
                   [] res.danger \in {"camouflage", "swamp"} -> 1500
     IN C14_After.energy = C14_Before.energy - loss

\* C15: after a danger outcome the agent is dead exactly when its energy is
\* at or below zero, and otherwise idle with its target cleared; it is never
\* left fetching or returning.
C15_DeadOrIdleAfterDanger ==
  C14_Danger =>
     /\ (C14_After.state = "dead") = (C14_After.energy <= 0)
     /\ C14_After.energy > 0 =>
           C14_After.state = "idle" /\ C14_After.currentUrl = NoUrl
     /\ C14_After.state \notin {"fetching", "returning"}

\* C15 happens: a predator takes the last energy of an agent in flight.
C15_KilledByPredator ==
  /\ C14_Danger /\ probe.kind = "outcome"
  /\ probe.arg.res.danger = "predator"
  /\ C14_Before.state = "fetching" /\ C14_Before.energy > 0
  /\ C14_After.energy <= 0 /\ C14_After.state = "dead"

\* C16: a success takes the latency times the factor from the agent's
\* energy; the agent is then returning with the packet if energy is left,
\* and dead, not returning, if none is.
C16_SuccessPenalty ==
  (probe.kind = "outcome" /\ probe.done /\ probe.arg.res.success) =>
     /\ C14_After.energy =
          C14_Before.energy - probe.arg.res.rtt * ANT_LATENCY_PENALTY_FACTOR
     /\ C14_After.energy > 0 =>
           C14_After.state = "returning" /\ C14_After.carrying = probe.arg.source.type
     /\ C14_After.energy <= 0 => C14_After.state = "dead"

\* C16 happens: a success whose latency costs more than the agent has left.
C16_SuccessThatKills ==
  /\ probe.kind = "outcome" /\ probe.done /\ probe.arg.res.success
  /\ C14_Before.state = "fetching" /\ C14_Before.energy > 0
  /\ C14_After.energy <= 0 /\ C14_After.state = "dead"

\* C17: a tick of an agent that is not dead takes exactly the decay from
\* its energy, adds one to ticksAlive, takes one from forageCooldown exactly
\* when that was positive, makes it dead exactly when the energy left is at
\* or below zero, and changes no other field; a tick of a dead agent
\* changes nothing.
C17_TickOfOneAgent ==
  (probe.kind = "ant" /\ probe.done /\ probe.op = "tick") =>
     LET a == probe.arg
         b == probe.out
     IN IF a.state = "dead" THEN b = a
        ELSE /\ b.energy = a.energy - ANT_ENERGY_DECAY_PER_TICK
             /\ b.ticksAlive = a.ticksAlive + 1
             /\ b.forageCooldown =
                  (IF a.forageCooldown > 0 THEN a.forageCooldown - 1
                   ELSE a.forageCooldown)
             /\ (b.state = "dead") = (b.energy <= 0)
             /\ b.state # "dead" => b.state = a.state
             /\ \A f \in DOMAIN a \ {"energy", "ticksAlive", "forageCooldown", "state"} :
                   b[f] = a[f]

\* C17 happens: the tick that takes the last energy of an agent in flight
\* whose cooldown is running.
C17_LastTick ==
  /\ probe.kind = "ant" /\ probe.done /\ probe.op = "tick"
  /\ probe.arg.state = "fetching" /\ probe.arg.forageCooldown > 0
  /\ probe.arg.energy = ANT_ENERGY_DECAY_PER_TICK
  /\ probe.out.state = "dead"

\* C18: the energy of every agent is always between 0 and ANT_MAX_ENERGY.
\* The code breaks it: the decay, the latency penalty and the damage are
\* subtracted without a floor, so an agent dies with its energy below zero.
C18_EnergyWithinBounds ==
  \A i \in DOMAIN colony.heap : colony.heap[i].energy \in 0..ANT_MAX_ENERGY

\* C19: an agent restored from what serialise wrote is idle when it was
\* fetching, keeps its state when it was idle or returning, and always
\* keeps id, energy, role, carrying, forageCooldown and ticksAlive; the
\* agents of a saved snapshot are therefore never fetching.
C19_RestoredFromSerialised ==
  /\ (probe.kind = "ant" /\ probe.done /\ probe.op = "restore") =>
        LET a == probe.arg
            b == probe.out
        IN /\ a.state = "fetching" => b.state = "idle"
           /\ a.state \in {"idle", "returning"} => b.state = a.state
           /\ \A f \in {"id", "energy", "role", "carrying", "forageCooldown",
                        "ticksAlive"} : b[f] = a[f]
  /\ (probe.kind = "save" /\ probe.done) =>
        /\ Len(probe.out.saved.ants) = Len(probe.arg.ants)
        /\ \A k \in DOMAIN probe.out.saved.ants :
              probe.out.saved.ants[k].state # "fetching"

\* C19 happens: an agent in flight is restored idle.
C19_FetchingRestoredIdle ==
  /\ probe.kind = "ant" /\ probe.done /\ probe.op = "restore"
  /\ probe.arg.state = "fetching" /\ probe.out.state = "idle"
  /\ probe.out.id = probe.arg.id

\* C20: after n deposits on one endpoint that had no record, with no time
\* passing, the record has intensity min(n x PHEROMONE_INITIAL_INTENSITY,
\* PHEROMONE_MAX_INTENSITY), visits n, and as average latency the arithmetic
\* mean of the n latencies supplied.
C20_DepositsAddUp ==
  (probe.kind = "deposit" /\ probe.n > 0) =>
     /\ "posts" \in DOMAIN probe.registry
     /\ LET r == probe.registry["posts"]
        IN /\ r.intensity = Min(probe.n * PHEROMONE_INITIAL_INTENSITY,
                                PHEROMONE_MAX_INTENSITY)
           /\ r.visits = probe.n
           /\ r.avgRTT = Rat(probe.sum, probe.n)

\* C20 happens: three deposits with three different latencies.
C20_ThreeDeposits ==
  /\ probe.kind = "deposit" /\ probe.n = 3 /\ probe.sum = 100 + 120 + 250
  /\ probe.registry["posts"].visits = 3

\* The record of the endpoint the registry calls are made on.
RegistryRecord == probe.registry["posts"]
HasRecord == probe.kind = "registry" /\ "posts" \in DOMAIN probe.registry

\* C21: depositRepellent on an endpoint without a record makes a record
\* with the repellent intensity, no visit and an infinite average latency,
\* and the effective intensity read at once is that intensity; on a record
\* it adds the repellent intensity, not below -PHEROMONE_MAX_INTENSITY, and
\* leaves visits and average latency as they were.
C21_RepellentRecord ==
  [][RegistryRepellent =>
       LET new == probe'.registry["posts"]
       IN IF "posts" \notin DOMAIN probe.registry
          THEN /\ new.intensity = PHEROMONE_REPELLENT_INTENSITY
               /\ new.visits = 0
               /\ new.avgRTT = Infinity
               /\ getEffectiveIntensity(probe'.registry, "posts", clock')
                    = PHEROMONE_REPELLENT_INTENSITY * 10000
          ELSE /\ new.intensity = Max(RegistryRecord.intensity + PHEROMONE_REPELLENT_INTENSITY,
                                      -PHEROMONE_MAX_INTENSITY)
               /\ new.visits = RegistryRecord.visits
               /\ new.avgRTT = RegistryRecord.avgRTT]_vars

\* C21 happens: a record made by a repellent and driven to the floor by
\* further ones.
C21_RepelledToTheFloor ==
  /\ HasRecord
  /\ RegistryRecord.visits = 0 /\ RegistryRecord.avgRTT = Infinity
  /\ RegistryRecord.intensity = -PHEROMONE_MAX_INTENSITY

\* C22: while a record is not written, the magnitude of its effective
\* intensity does not grow with the time elapsed and its sign is never
\* opposite to the sign of the stored intensity; an endpoint without a
\* record reads 0.
C22_DecayOnly ==
  /\ [](probe.kind = "registry" =>
          \A u \in NodeUrls :
             LET e == getEffectiveIntensity(probe.registry, u, clock)
             IN IF u \notin DOMAIN probe.registry THEN e = 0
                ELSE e * probe.registry[u].intensity >= 0)
  /\ [][TimePasses =>
          \A u \in DOMAIN probe.registry :
             Abs(getEffectiveIntensity(probe'.registry, u, clock'))
               <= Abs(getEffectiveIntensity(probe.registry, u, clock))]_vars

\* C22 happens: a repellent record read two waits after it was written.
C22_FadedRepellent ==
  /\ HasRecord
  /\ RegistryRecord.intensity < 0 /\ clock - RegistryRecord.lastSeen = 2 * Elapse
  /\ getEffectiveIntensity(probe.registry, "posts", clock) < 0
  /\ getEffectiveIntensity(probe.registry, "posts", clock)
       > RegistryRecord.intensity * 10000

\* C23: prune removes exactly the records whose decayed magnitude is below
\* the threshold (0.01) and leaves the others as they are; a removed
\* endpoint reads 0 until a deposit or a repellent makes a new record for
\* it, whose visits start again.
C23_PruneForgets ==
  /\ [][RegistryPrune =>
          /\ DOMAIN probe'.registry =
               {u \in DOMAIN probe.registry :
                  Abs(getEffectiveIntensity(probe.registry, u, clock)) >= 100}
          /\ \A u \in DOMAIN probe'.registry : probe'.registry[u] = probe.registry[u]]_vars
  /\ [](probe.kind = "registry" =>
          \A u \in probe.forgotten \ DOMAIN probe.registry :
             getEffectiveIntensity(probe.registry, u, clock) = 0)
  /\ [][(RegistryDeposit /\ ~HasRecord) =>
          /\ probe'.registry["posts"].visits = 1
          /\ probe'.registry["posts"].intensity = PHEROMONE_INITIAL_INTENSITY]_vars
  /\ [][(RegistryRepellent /\ ~HasRecord) =>
          /\ probe'.registry["posts"].visits = 0
          /\ probe'.registry["posts"].intensity = PHEROMONE_REPELLENT_INTENSITY]_vars

\* C23 happens: the record of the endpoint was removed while the stronger
\* record of the other endpoint stayed, and a deposit has made a new one.
C23_ForgottenAndFoundAgain ==
  /\ HasRecord
  /\ "posts" \in probe.forgotten
  /\ "pokeapi" \in DOMAIN probe.registry
  /\ RegistryRecord.visits = 1

\* C27: however deposits and repellents on one endpoint follow each other,
\* after each deposit the record's visits are the number of deposits since
\* the record was made and its average latency is the mean of their
\* latencies.  The code breaks it: the first deposit on a record a
\* repellent made computes (Infinity * 0 + rtt) / 1, which is NaN.
C27_MeanOfDeposits ==
  [][RegistryDeposit =>
       /\ probe'.registry["posts"].visits = probe'.made.n
       /\ Rat(probe'.made.sum, probe'.made.n) = probe'.registry["posts"].avgRTT]_vars

\* C30: the stored intensity of every record is always between
\* -PHEROMONE_MAX_INTENSITY and PHEROMONE_MAX_INTENSITY.
C30_IntensityWithinBounds ==
  probe.kind = "registry" =>
     \A u \in DOMAIN probe.registry :
        probe.registry[u].intensity
          \in (-PHEROMONE_MAX_INTENSITY)..PHEROMONE_MAX_INTENSITY

\* C30 happens: a deposit on a record that was already at the cap.
C30_DepositAtTheCap ==
  /\ HasRecord
  /\ RegistryRecord.intensity = PHEROMONE_MAX_INTENSITY
  /\ RegistryRecord.visits > PHEROMONE_MAX_INTENSITY

C28_EveryDeliveryStored ==
  (probe.kind = "delivery" /\ probe.done) =>
     LET c == probe.arg
         d == probe.out
         k == Cardinality({i \in 1..Carriers :
                             c.heap[i].state = "returning" /\ c.heap[i].carrying # NoFood})
     IN /\ \A i \in 1..Carriers :
              IF c.heap[i].state = "returning" /\ c.heap[i].carrying # NoFood
              THEN /\ d.heap[i].energy =
                        Min(c.heap[i].energy + ANT_ENERGY_GAIN_ON_FOOD, ANT_MAX_ENERGY)
                   /\ d.heap[i].carrying = NoFood
                   /\ d.heap[i].currentUrl = NoUrl
                   /\ d.heap[i].state = "idle"
              ELSE d.heap[i] = c.heap[i]
        /\ d.stats.totalFood = c.stats.totalFood + k
        /\ d.cookies = c.cookies + k

\* C24: apart from reset, nothing lowers totalFood, totalBirths or
\* totalDeaths.  The code breaks it at bootstrap: when the snapshot holds
\* no agent, init spawns the initial colony and then sets totalBirths to
\* INITIAL_COLONY_SIZE, below the count it has just loaded.
C24_CountersNeverDecrease ==
  (probe.kind = "bootstrap" /\ probe.done /\ running
     /\ probe.arg.ants.kind # "unreadable" /\ probe.arg.stats.kind = "value") =>
     \A counter \in {"totalFood", "totalBirths", "totalDeaths"} :
        colony.stats[counter] >= probe.arg.stats.value[counter]

\* C25: when a store fails at bootstrap, init still completes, the
\* population is INITIAL_COLONY_SIZE new agents and the tick loop starts.
\* The code breaks it: a database of the registry that cannot be opened or
\* read makes init reject, and main never calls simLoop.
C25_BootstrapSurvivesStoreFailure ==
  (probe.kind = "bootstrap" /\ probe.done
     /\ (probe.arg.db # "ok" \/ probe.arg.ants.kind = "unreadable")) =>
     /\ running /\ timers = 1
     /\ Len(colony.ants) = INITIAL_COLONY_SIZE
     /\ \A i \in Range(colony.ants) :
           colony.heap[i].ticksAlive = 0 /\ colony.heap[i].energy = ANT_INITIAL_ENERGY

\* C26: no error raised during a tick ends the loop: when a tick with a
\* fault settles, the timer of the next tick is armed, and while the
\* simulation is running the next tick is started.
C26_LoopSurvivesErrors ==
  /\ [][Len(probe'.pending) < Len(probe.pending) => timers' = timers + 1]_vars
  /\ \A n \in 1..(MaxLoopTicks - 1) :
        (probe.ticks = n /\ probe.pending = <<>> /\ probe.last # "none")
          ~> (probe.ticks > n \/ ~running)

\* C26 happens: a tick threw, simLoop caught it, and a later tick runs.
C26_TickAfterRejectedTick ==
  /\ probe.kind = "loop" /\ probe.last = "tick"
  /\ running /\ Len(probe.pending) = 1 /\ probe.ticks > 1

\* C31: the population never exceeds MAX_COLONY_SIZE; a spawn attempted at
\* the cap adds no ant and does not increase totalBirths.
C31_PopulationCap ==
  (probe.kind = "tryReproduce" /\ probe.done) =>
     /\ Len(probe.out.ants) <= MAX_COLONY_SIZE
     /\ Len(probe.arg.ants) = MAX_COLONY_SIZE =>
           /\ probe.out.ants = probe.arg.ants
           /\ probe.out.heap = probe.arg.heap
           /\ probe.out.stats.totalBirths = probe.arg.stats.totalBirths

\* A spawn was attempted on a colony of MAX_COLONY_SIZE ants: the food was
\* there, a unit was consumed, and no ant was added.
C31_SpawnAtTheCap ==
  /\ probe.kind = "tryReproduce" /\ probe.done
  /\ Len(probe.arg.ants) = MAX_COLONY_SIZE
  /\ probe.arg.cookies >= REPRODUCTION_FOOD_THRESHOLD
  /\ probe.out.cookies = probe.arg.cookies - 1
  /\ Len(probe.out.ants) = MAX_COLONY_SIZE

\* C32: the visitedUrls of an agent never holds more than 20 targets, and
\* it holds the most recent targets in order, the most recent one last.
\* The code breaks it: the success branch of _dispatchAntWithTarget pushes
\* the target and nothing shortens the list in memory, only the snapshot
\* serialise writes keeps the last 20.
C32_VisitedBounded ==
  (probe.kind = "outcome" /\ probe.done) =>
     LET before == probe.arg.c.heap[1].visitedUrls
         after == probe.out.heap[1].visitedUrls
     IN /\ Len(after) <= VISITED_KEPT
        /\ (~probe.arg.res.threw /\ probe.arg.res.success) =>
              /\ after # <<>>
              /\ after[Len(after)] = probe.arg.source.url
              /\ \A k \in 1..(Len(after) - 1) :
                    after[k] = before[Len(before) - (Len(after) - 1) + k]

\* The weight the specification gives a food endpoint of effective
\* intensity i (in ten-thousandths): for a scout 0.01 if i < -0.5, else
\* max(0.1, 1 - |i|); for a worker 0.05 if i < -0.5, else max(0.1, i + 1).
C33_Weight(role, i) ==
  IF role = "scout"
  THEN (IF i < -5000 THEN 100 ELSE IF 10000 - Abs(i) > 1000 THEN 10000 - Abs(i) ELSE 1000)
  ELSE (IF i < -5000 THEN 500 ELSE IF i + 10000 > 1000 THEN i + 10000 ELSE 1000)

\* C33: the local policy weighs every food endpoint by the table of the
\* specification, every weight is strictly positive, so the selection
\* returns a member of the food set and every food endpoint is a possible
\* result; with an empty food set it returns no target and the agent is not
\* dispatched.
C33_WeightedChoice ==
  (probe.kind = "select" /\ probe.done) =>
     LET food == probe.arg.food
         urls == {food[i].url : i \in DOMAIN food}
         role == probe.arg.c.heap[1].role
         ant == probe.out.heap[1]
     IN /\ \A u \in urls :
              LET i == getEffectiveIntensity(probe.arg.c.registry, u, probe.arg.now)
              IN /\ Weight(role, i) = C33_Weight(role, i)
                 /\ Weight(role, i) > 0
        /\ probe.choice = urls
        /\ IF urls = {}
           THEN probe.out = probe.arg.c
           ELSE /\ ant.state = "fetching"
                /\ ant.currentUrl \in urls
                /\ probe.out.activeFetches = 1

\* A scout was sent to the second food endpoint although the registry holds
\* it repelled below -0.5 (weight 0.01) and the first one at its best.
C33_ScoutToTheRepelled ==
  /\ probe.kind = "select" /\ probe.done
  /\ probe.arg.food = getFoodNodes
  /\ probe.arg.c.heap[1].role = "scout"
  /\ getEffectiveIntensity(probe.arg.c.registry, "pokeapi", probe.arg.now) < -5000
  /\ probe.out.heap[1].currentUrl = "pokeapi"

\* C35: activeFetches is the number of forage operations started and not yet
\* settled, so it is 0 whenever a tick has completed and the next tick starts
\* with the full cap.  The code keeps the count (the decrement is in a
\* finally block) but breaks the consequence through C2: a tick started by
\* Resume completes while the operations of the first tick are in flight.
C35_NoneInFlightAtTickEnd ==
  /\ [](colony.activeFetches = Cardinality(DOMAIN ops))
  /\ [][C7_TickCompletes => colony'.activeFetches = 0]_vars

\* C34: within one tick the agent-tick step is applied to every agent before
\* any dispatch (the batch is the first eligible agents after that step,
\* agents whose cooldown has just ended included, and every agent
\* dispatched has been ticked); pruning comes after delivery, reproduction
\* after pruning (the food delivered in this tick counts for the
\* threshold), and the removal of the dead after reproduction (at
\* MAX_COLONY_SIZE no agent is spawned although dead ones are removed in
\* the same tick, and a spawned agent stays).
C34_StepsInOrder ==
  [][TickStarts =>
       LET c1 == AdvanceAnts(colony)
           eligible == {i \in Range(colony.ants) : canForage(c1.heap[i])}
           dead == {i \in Range(colony.ants) : c1.heap[i].state = "dead"}
           carriers == Returning(c1)
           fed == colony.cookies + (IF carriers = {} THEN 0 ELSE 1)
                    >= REPRODUCTION_FOOD_THRESHOLD
           born == IF fed /\ Len(colony.ants) < MAX_COLONY_SIZE THEN 1 ELSE 0
       IN /\ NewOps \subseteq eligible
          /\ Cardinality(NewOps)
               = Min(Cardinality(eligible), MAX_CONCURRENT_FETCHES - colony.activeFetches)
          /\ \A a \in NewOps :
                /\ colony'.heap[a].energy = colony.heap[a].energy - ANT_ENERGY_DECAY_PER_TICK
                /\ colony'.heap[a].ticksAlive = colony.heap[a].ticksAlive + 1
          /\ colony'.stats.totalFood = colony.stats.totalFood + Cardinality(carriers)
          /\ colony'.registry = prune(colony.registry, clock')
          /\ fed => /\ colony'.stats.totalBirths = colony.stats.totalBirths + born
                    /\ Len(colony'.ants) = Len(colony.ants) + born - Cardinality(dead)
          /\ colony'.stats.totalDeaths = colony.stats.totalDeaths + Cardinality(dead)
          /\ \A i \in Range(colony'.ants) : colony'.heap[i].state # "dead"]_vars

\* A tick of a colony of MAX_COLONY_SIZE agents in which the first agent
\* starved: a unit of food was consumed, no agent was spawned, and the dead
\* one was removed afterwards.
C34_NoRoomBeforeRemoval ==
  /\ Len(colony.ants) = MAX_COLONY_SIZE - 1
  /\ colony.stats.totalDeaths = 1
  /\ colony.stats.totalBirths = MAX_COLONY_SIZE
  /\ colony.cookies = FoodStored

\* C36: no agent is dispatched a second time while another agent that has
\* been eligible at every tick since (and including) the tick of its first
\* dispatch has not been dispatched at all.  The code breaks it: the batch
\* is the head of the list of eligible agents, and an agent is eligible
\* again FORAGE_COOLDOWN_TICKS ticks after its dispatch, so the first
\* MAX_CONCURRENT_FETCHES * FORAGE_COOLDOWN_TICKS agents of the list take
\* every slot and the agents behind them are never dispatched.
C36_NoStarvationByPosition ==
  [][\A a \in NewOps :
        a \in DOMAIN probe.trips =>
          ~\E b \in Range(colony'.ants) :
               /\ b \notin DOMAIN probe'.trips
               /\ canForage(colony'.heap[b])
               /\ colony'.heap[b].ticksAlive >= colony'.tickCount - probe.trips[a][1] + 1]_vars

\* C37: an agent that is returning with a packet when a tick ends is idle
\* with its packet delivered at the end of the next tick: one item stored
\* and totalFood one higher for each such agent.  The code breaks it: the
\* next tick applies the agent-tick step first, an agent that starves in it
\* is dead when the delivery step looks for returning agents, and it is
\* removed with its packet (and deliveries of one millisecond store one
\* item, C28).
C37_ReturningIsDelivered ==
  [][TickStarts =>
       LET back == Returning(colony)
       IN /\ \A i \in back :
                /\ i \in Range(colony'.ants)
                /\ colony'.heap[i].state = "idle"
                /\ colony'.heap[i].carrying = NoFood
          /\ colony'.stats.totalFood = colony.stats.totalFood + Cardinality(back)
          /\ colony'.cookies >= colony.cookies + Cardinality(back) - 1]_vars

\* C38: at every tick boundary every agent of the population is dead exactly
\* when its energy is at most 0 (checked in every state, between ticks and
\* while operations are in flight).
C38_DeadIffStarved ==
  \A i \in Range(colony.ants) :
     (colony.heap[i].state = "dead") <=> (colony.heap[i].energy <= 0)

\* A tick has ended and left in the population an agent the latency penalty
\* of its forage has killed, and agents that live.
C38_DeadAtTheBoundary ==
  /\ openTicks = <<>>
  /\ colony.tickCount > 0
  /\ \E i \in Range(colony.ants) :
        colony.heap[i].state = "dead" /\ colony.heap[i].energy <= 0
  /\ \E i \in Range(colony.ants) :
        colony.heap[i].state # "dead" /\ colony.heap[i].energy > 0

\* C40: an agent dispatched in tick t is not dispatched again before tick
\* t + FORAGE_COOLDOWN_TICKS, whatever the outcome of its operation.
C40_CooldownSpacing ==
  [][\A a \in NewOps :
        a \in DOMAIN probe.trips =>
          colony'.tickCount
            >= probe.trips[a][Len(probe.trips[a])] + FORAGE_COOLDOWN_TICKS]_vars

\* An agent whose first forage met a danger (it has visited nothing) is in
\* flight again, dispatched FORAGE_COOLDOWN_TICKS ticks after the first time.
C40_AgainAfterTheCooldown ==
  /\ probe.kind = "season"
  /\ \E a \in DOMAIN probe.trips \cap DOMAIN ops :
        /\ Len(probe.trips[a]) = 2
        /\ probe.trips[a][2] = probe.trips[a][1] + FORAGE_COOLDOWN_TICKS
        /\ colony.heap[a].visitedUrls = <<>>
        /\ colony.heap[a].state = "fetching"

\* C39: agents are conserved: in every reachable state totalBirths minus
\* totalDeaths is the number of agents in the population (dead ones not yet
\* removed included), across ticks, reproduction, the removal of the dead,
\* and reset() followed by init().
C39_BirthsMinusDeaths ==
  colony.stats.totalBirths - colony.stats.totalDeaths = Len(colony.ants)

\* A colony was reset, init has spawned the new colony, and the new colony
\* has spawned an agent of its own.
C39_NewColonyAfterReset ==
  /\ probe.kind = "season" /\ probe.inits = 0
  /\ clicks = 1
  /\ colony.stats.totalBirths = INITIAL_COLONY_SIZE + 1
  /\ Len(colony.ants) = INITIAL_COLONY_SIZE + 1

====
